---- MODULE Spec2Model ----
(***************************************************************************)
(* A model of the ELFE/XL evaluation pipeline:                             *)
(*   - the operator-precedence parser (Parser::Parse, parser.cpp),         *)
(*   - the rewrite-call binder (RewriteCandidate::Bind, RewriteCalls::     *)
(*     Check, compiler-args.cpp).                                          *)
(* Trees are records tagged by "kind"; NULL stands for a null Tree *.      *)
(***************************************************************************)
EXTENDS Integers, Sequences, FiniteSets, TLC

VARIABLES
    syntax,             \* the Syntax tables the parser consults
    frames,             \* the locals of each active Parser::Parse call
    input,              \* the tokens NextToken has delivered so far
    hadSpaceBefore,     \* Parser::hadSpaceBefore of the current token
    hadSpaceAfter,      \* Parser::hadSpaceAfter of the current token
    signedConstants,    \* Options::options->signedConstants
    errors,             \* what was logged to the error sink
    parsed,             \* what the outermost Parse returned
    scope,              \* the declarations, bound names and types in scope
    what,               \* the call site expression being looked up
    next,               \* the index of the rule the lookup offers next
    candidates,         \* RewriteCalls::candidates
    checks,             \* what each call of RewriteCalls::Check did
    found,              \* what the lookup returned
    declForm,           \* the left of a declaration being entered
    definedForm,        \* what RewriteDefined finds that it defines
    argument,           \* a RewriteBinding and the closure made for it
    interp,             \* a call of Interpreter::MakeClosure
    previous,           \* the text an earlier Parser read, and its result
    invoked,            \* a function being called: its arguments, its result
    reader,             \* a run of Syntax::ReadSyntaxFile
    lexer               \* Parser::NextToken and the scanner it reads

parserVars == <<syntax, frames, input, hadSpaceBefore, hadSpaceAfter,
                signedConstants, errors, parsed, previous>>

callVars == <<scope, what, next, candidates, checks, found>>

declVars == <<declForm, definedForm>>

\* What the parser leaves alone, what the lookup leaves alone, and so on.
closureVars == <<argument>>

interpVars == <<interp>>

restVars == <<invoked, reader, lexer>>

notParser == <<callVars, declVars, closureVars, interpVars, restVars>>

notCalls == <<parserVars, declVars, closureVars, interpVars, restVars>>

notDecl == <<parserVars, callVars, closureVars, interpVars, restVars>>

notClosure == <<parserVars, callVars, declVars, interpVars, restVars>>

notInterp == <<parserVars, callVars, declVars, closureVars, restVars>>

notRest == <<parserVars, callVars, declVars, closureVars, interpVars>>

vars == <<syntax, frames, input, hadSpaceBefore, hadSpaceAfter,
          signedConstants, errors, parsed,
          scope, what, next, candidates, checks, found,
          declForm, definedForm, argument, interp, previous,
          invoked, reader, lexer>>

----------------------------------------------------------------------------
(* Bounds of the model *)

MaxTokens == 5          \* tokens read before the scanner reports EOF
MaxPrio == 7            \* largest priority a syntax file of the model gives

----------------------------------------------------------------------------
(* The tree algebra *)

NULL == [kind |-> "Null"]

Integer(v) == [kind |-> "Integer", ivalue |-> v]

Real(v) == [kind |-> "Real", rvalue |-> v]

Text(v, o, c) == [kind |-> "Text", tvalue |-> v, opening |-> o, closing |-> c]

Name(v) == [kind |-> "Name", value |-> v]

Block(child, o, c) == [kind |-> "Block", child |-> child, opening |-> o,
                       closing |-> c]

Prefix(l, r) == [kind |-> "Prefix", left |-> l, right |-> r]

Postfix(l, r) == [kind |-> "Postfix", left |-> l, right |-> r]

Infix(n, l, r) == [kind |-> "Infix", name |-> n, left |-> l, right |-> r]

----------------------------------------------------------------------------
(* Syntax: priority lookups *)

\* A priority table entry of 0, or no entry, reads as default_priority.
InfixPriority(syn, n) ==
    IF n \in DOMAIN syn.infix_priority /\ syn.infix_priority[n] # 0
    THEN syn.infix_priority[n]
    ELSE syn.default_priority

PrefixPriority(syn, n) ==
    IF n \in DOMAIN syn.prefix_priority /\ syn.prefix_priority[n] # 0
    THEN syn.prefix_priority[n]
    ELSE syn.default_priority

PostfixPriority(syn, n) ==
    IF n \in DOMAIN syn.postfix_priority /\ syn.postfix_priority[n] # 0
    THEN syn.postfix_priority[n]
    ELSE syn.default_priority

----------------------------------------------------------------------------
(* Parser: pending stack and the reductions that pop it *)

\* An entry of the work stack (its source position is not modelled).
Pending(o, a, p) == [opcode |-> o, argument |-> a, priority |-> p]

\* The text local 'prefix' of Parse: the opcode that marks a prefix entry.
prefix == ""

\* p & ~1 on a two's complement int
ClearLowBit(p) == p - (p % 2)

\* Mutant: the low bit of the pending priority is not turned off.
KeepPending_LowBitKept(prio, prev_priority, done, default_priority) ==
    /\ ~done
    /\ prev_priority # default_priority
    /\ prio > prev_priority

\* Mutant: the loop never breaks, every pending entry is reduced.
KeepPending_Never(prio, prev_priority, done, default_priority) == FALSE

\* Mutant: >= instead of >.
KeepPending_OrEqual(prio, prev_priority, done, default_priority) ==
    /\ ~done
    /\ prev_priority # default_priority
    /\ prio >= ClearLowBit(prev_priority)

\* The 'break' test of the three flush loops: the entry stays on the stack.
KeepPending(prio, prev_priority, done, default_priority) ==
    /\ ~done
    /\ prev_priority # default_priority
    /\ prio > ClearLowBit(prev_priority)

CreatePrefix_IntegerOnly(left, right, signed) ==
    IF signed /\ left.kind = "Name" /\ left.value = "-"
    THEN IF right.kind = "Integer" THEN Integer(0 - right.ivalue)
         ELSE Prefix(left, right)
    ELSE Prefix(left, right)

CreatePrefix(left, right, signed) ==
    IF signed /\ left.kind = "Name" /\ left.value = "-"
    THEN IF right.kind = "Integer" THEN Integer(0 - right.ivalue)
         ELSE IF right.kind = "Real" THEN Real(0 - right.rvalue)
         ELSE Prefix(left, right)
    ELSE Prefix(left, right)

\* One reduction: the popped entry applied to the tree on its right.
Reduce(prev, acc, signed) ==
    IF prev.opcode = prefix
    THEN CreatePrefix(prev.argument, acc, signed)
    ELSE Infix(prev.opcode, prev.argument, acc)

RECURSIVE Flush(_, _, _, _, _, _)
\* while (stack.size()) { if (keep) break; reduce; pop }
Flush(stack, acc, prio, done, default_priority, signed) ==
    IF Len(stack) = 0
    THEN [stack |-> stack, acc |-> acc]
    ELSE LET prev == stack[Len(stack)] IN
         IF KeepPending(prio, prev.priority, done, default_priority)
         THEN [stack |-> stack, acc |-> acc]
         ELSE Flush(SubSeq(stack, 1, Len(stack) - 1),
                    Reduce(prev, acc, signed),
                    prio, done, default_priority, signed)

RECURSIVE DrainAll(_, _, _)
\* The unconditional loop that empties the stack once the input is done.
DrainAll(stack, acc, signed) ==
    IF Len(stack) = 0
    THEN acc
    ELSE DrainAll(SubSeq(stack, 1, Len(stack) - 1),
                  Reduce(stack[Len(stack)], acc, signed),
                  signed)

----------------------------------------------------------------------------
(* Parser: the locals of one Parse(closing) call *)

NewFrame(syn, closing) ==
    LET paren == InfixPriority(syn, closing)
        expr  == closing # "" /\ paren > syn.statement_priority
    IN [closing            |-> closing,
        result             |-> NULL,
        left               |-> NULL,
        right              |-> NULL,
        done               |-> FALSE,
        default_priority   |-> syn.default_priority,
        function_priority  |-> syn.function_priority,
        statement_priority |-> syn.statement_priority,
        result_priority    |-> syn.default_priority,
        prefix_priority    |-> 0,
        prefix_vs_infix    |-> 0,
        postfix_priority   |-> 0,
        infix_priority     |-> 0,
        paren_priority     |-> paren,
        is_expression      |-> expr,
        new_statement      |-> ~expr,
        infix              |-> "",
        blk_opening        |-> "",
        blk_closing        |-> "",
        stack              |-> << >>]

\* Top of the while loop: right and the two priorities are reset.
BeginToken(f) ==
    [f EXCEPT !.right = NULL,
              !.prefix_priority = f.default_priority,
              !.infix_priority = f.default_priority]

\* Mutant: infix only without space before and with space after.
TreatAsInfix_BothSpacings(ip, pvi, default_priority, spaceBefore, spaceAfter) ==
    /\ ip # default_priority
    /\ \/ pvi = default_priority
       \/ (~spaceBefore /\ spaceAfter)

\* The infix-versus-prefix decision for a name that follows a result.
TreatAsInfix(ip, pvi, default_priority, spaceBefore, spaceAfter) ==
    /\ ip # default_priority
    /\ \/ pvi = default_priority
       \/ ~spaceBefore
       \/ spaceAfter

\* case tokINTEGER / tokREAL
SwitchConstant(f, tree) ==
    [f EXCEPT !.right = tree, !.prefix_priority = f.function_priority]

\* case tokNAME / tokSYMBOL (the syntaxes of the model declare no child syntax)
SwitchName(f, syn, signed, tok, name, spaceBefore, spaceAfter) ==
    IF name = f.closing
    THEN [f EXCEPT !.done = TRUE]
    ELSE IF f.result = NULL
    THEN LET pp == PrefixPriority(syn, name) IN
         [f EXCEPT !.right = Name(name),
                   !.prefix_priority = IF pp = f.default_priority
                                       THEN f.function_priority ELSE pp,
                   !.is_expression = IF f.new_statement /\ tok = "NAME"
                                     THEN FALSE ELSE @]
    ELSE IF f.left # NULL
    THEN LET pp == PrefixPriority(syn, name) IN
         [f EXCEPT !.right = Name(name),
                   !.prefix_priority = IF pp = f.default_priority
                                       THEN f.function_priority ELSE pp]
    ELSE LET ip  == InfixPriority(syn, name)
             pvi == PrefixPriority(syn, name)
             g   == [f EXCEPT !.infix_priority = ip, !.prefix_vs_infix = pvi]
         IN
         IF TreatAsInfix(ip, pvi, f.default_priority, spaceBefore, spaceAfter)
         THEN [g EXCEPT !.left = f.result, !.infix = name]
         ELSE LET postp == PostfixPriority(syn, name) IN
              IF postp # f.default_priority
              THEN LET fl == Flush(f.stack, f.result, postp, f.done,
                                   f.default_priority, signed)
                   IN [g EXCEPT !.postfix_priority = postp,
                                !.stack = fl.stack,
                                !.right = Postfix(fl.acc, Name(name)),
                                !.prefix_priority = postp,
                                !.result = NULL]
              ELSE [g EXCEPT !.postfix_priority = postp,
                             !.right = Name(name),
                             !.prefix_priority =
                                 IF pvi = f.default_priority
                                 THEN f.function_priority ELSE pvi,
                             !.is_expression =
                                 IF /\ pvi = f.default_priority
                                    /\ f.new_statement /\ tok = "NAME"
                                 THEN FALSE ELSE @]

Combine_GroupsFirst(f, signed) ==
    IF f.result = NULL
    THEN [f EXCEPT !.result = f.right,
                   !.result_priority = f.prefix_priority,
                   !.new_statement =
                       IF /\ f.right # NULL
                          /\ f.prefix_priority >= f.statement_priority
                       THEN FALSE ELSE @]
    ELSE IF f.left # NULL
    THEN LET f1 == IF f.infix_priority < f.statement_priority
                   THEN [f EXCEPT !.new_statement = TRUE,
                                  !.is_expression = FALSE]
                   ELSE f
         IN
         IF f1.prefix_priority # f1.default_priority
         THEN [f1 EXCEPT !.stack = Append(@, Pending(f1.infix, f1.left,
                                                     f1.infix_priority)),
                         !.left = NULL,
                         !.result = f1.right,
                         !.result_priority = f1.prefix_priority]
         ELSE LET fl == Flush(f1.stack, f1.left, f1.infix_priority, f1.done,
                              f1.default_priority, signed)
              IN
              IF f1.done
              THEN [f1 EXCEPT !.stack = fl.stack,
                              !.result = fl.acc,
                              !.left = NULL]
              ELSE [f1 EXCEPT !.stack = Append(fl.stack,
                                  Pending(f1.infix, fl.acc, f1.infix_priority)),
                              !.result = NULL,
                              !.left = NULL]
    ELSE IF f.right # NULL
    THEN LET f1 == IF f.prefix_priority < f.statement_priority
                   THEN [f EXCEPT !.new_statement = TRUE,
                                  !.is_expression = FALSE]
                   ELSE f
             fl == Flush(f1.stack, f1.result, f1.result_priority, TRUE,
                         f1.default_priority, signed)
             rp == IF /\ ~f1.is_expression
                      /\ f1.result_priority > f1.statement_priority
                      /\ \/ Len(fl.stack) = 0
                         \/ fl.stack[Len(fl.stack)].priority
                                < f1.statement_priority
                   THEN f1.statement_priority
                   ELSE f1.result_priority
         IN [f1 EXCEPT !.stack = Append(fl.stack, Pending(prefix, fl.acc, rp)),
                       !.result = f1.right,
                       !.result_priority = f1.prefix_priority]
    ELSE f

\* "Check what is the current result": the second half of a loop iteration.
Combine(f, signed) ==
    IF f.result = NULL
    THEN [f EXCEPT !.result = f.right,
                   !.result_priority = f.prefix_priority,
                   !.new_statement =
                       IF /\ f.right # NULL
                          /\ f.prefix_priority >= f.statement_priority
                       THEN FALSE ELSE @]
    ELSE IF f.left # NULL
    THEN LET f1 == IF f.infix_priority < f.statement_priority
                   THEN [f EXCEPT !.new_statement = TRUE,
                                  !.is_expression = FALSE]
                   ELSE f
         IN
         IF f1.prefix_priority # f1.default_priority
         THEN [f1 EXCEPT !.stack = Append(@, Pending(f1.infix, f1.left,
                                                     f1.infix_priority)),
                         !.left = NULL,
                         !.result = f1.right,
                         !.result_priority = f1.prefix_priority]
         ELSE LET fl == Flush(f1.stack, f1.left, f1.infix_priority, f1.done,
                              f1.default_priority, signed)
              IN
              IF f1.done
              THEN [f1 EXCEPT !.stack = fl.stack,
                              !.result = fl.acc,
                              !.left = NULL]
              ELSE [f1 EXCEPT !.stack = Append(fl.stack,
                                  Pending(f1.infix, fl.acc, f1.infix_priority)),
                              !.result = NULL,
                              !.left = NULL]
    ELSE IF f.right # NULL
    THEN LET f1 == IF f.prefix_priority < f.statement_priority
                   THEN [f EXCEPT !.new_statement = TRUE,
                                  !.is_expression = FALSE]
                   ELSE f
             fl == IF f1.prefix_priority <= f1.result_priority
                   THEN Flush(f1.stack, f1.result, f1.result_priority, f1.done,
                              f1.default_priority, signed)
                   ELSE [stack |-> f1.stack, acc |-> f1.result]
             rp == IF /\ ~f1.is_expression
                      /\ f1.result_priority > f1.statement_priority
                      /\ \/ Len(fl.stack) = 0
                         \/ fl.stack[Len(fl.stack)].priority
                                < f1.statement_priority
                   THEN f1.statement_priority
                   ELSE f1.result_priority
         IN [f1 EXCEPT !.stack = Append(fl.stack, Pending(prefix, fl.acc, rp)),
                       !.result = f1.right,
                       !.result_priority = f1.prefix_priority]
    ELSE f

\* After the loop: what Parse returns.
Drain(f, signed) ==
    IF Len(f.stack) = 0
    THEN f.result
    ELSE IF f.result = NULL
    THEN LET last == f.stack[Len(f.stack)] IN
         DrainAll(SubSeq(f.stack, 1, Len(f.stack) - 1),
                  IF last.opcode # "\n"
                  THEN Postfix(last.argument, Name(last.opcode))
                  ELSE last.argument,
                  signed)
    ELSE DrainAll(f.stack, f.result, signed)

----------------------------------------------------------------------------
(* Parser: the syntaxes and the source texts of the model *)

NoPriorities == [n \in {} |-> 0]

NoDelimiters == [n \in {} |-> ""]

\* A syntax file that declares the two infix operators + and *.
ArithSyntax(plus, star, dflt) ==
    [infix_priority     |-> ("+" :> plus) @@ ("*" :> star),
     prefix_priority    |-> NoPriorities,
     postfix_priority   |-> NoPriorities,
     block_delimiters   |-> NoDelimiters,
     default_priority   |-> dflt,
     statement_priority |-> 1,
     function_priority  |-> MaxPrio + 1]

\* A syntax file where - is infix and (when minus # 0) prefix, ! is postfix.
UnarySyntax(minus, stmt) ==
    [infix_priority     |-> ("-" :> MaxPrio - 3),
     prefix_priority    |-> ("-" :> minus),
     postfix_priority   |-> ("!" :> MaxPrio),
     block_delimiters   |-> NoDelimiters,
     default_priority   |-> 0,
     statement_priority |-> stmt,
     function_priority  |-> MaxPrio + 1]

OpPrios == {0} \cup ((MaxPrio - 3) .. MaxPrio)

ParserConfigs ==
    { [syntax |-> ArithSyntax(p, q, d), signedConstants |-> FALSE] :
          p \in OpPrios, q \in OpPrios, d \in {0} }
    \cup
    { [syntax |-> UnarySyntax(m, st), signedConstants |-> sc] :
          m \in {0, MaxPrio - 1}, st \in {1, MaxPrio - 2}, sc \in BOOLEAN }

\* A syntax file where and is infix and not is prefix.
WordSyntax(and, not, stmt) ==
    [infix_priority     |-> ("and" :> and),
     prefix_priority    |-> ("not" :> not),
     postfix_priority   |-> NoPriorities,
     block_delimiters   |-> NoDelimiters,
     default_priority   |-> 0,
     statement_priority |-> stmt,
     function_priority  |-> MaxPrio + 1]

\* The prefix not has a higher priority than the infix and.
WordConfigs ==
    { [syntax |-> WordSyntax(and, not, stmt), signedConstants |-> FALSE] :
          and \in {2, 3}, not \in {4, MaxPrio}, stmt \in {1, 3, 5} }

\* The names a syntax gives a priority to.
Operators(syn) ==
    (DOMAIN syn.infix_priority \cup DOMAIN syn.prefix_priority
        \cup DOMAIN syn.postfix_priority)
    \ (DOMAIN syn.block_delimiters \cup {"\n"})

\* The plain names of a source text, in the order they occur in it.
OperandNames == <<"a", "b", "c", "d", "e", "f", "g">>

Operands(in) == { i \in 1..Len(in) : in[i].operand }

\* The operand the scanner delivers next: the k-th one is named
\* OperandNames[k] as a name and is k + 1 as an integer.
NextOperand(in) == Cardinality(Operands(in)) + 1

Token(tok, name, ivalue, operand) ==
    [tok |-> tok, name |-> name, ivalue |-> ivalue, operand |-> operand]

\* Letters make a tokNAME, punctuation a tokSYMBOL.
TokenKind(name) ==
    IF name \in {"+", "*", "-", "!", ";"} THEN "SYMBOL" ELSE "NAME"

\* How a token is written in the texts below: a stands for any plain name,
\* 1 for any integer and 1.5 for any real.
Spelling(t) ==
    CASE t.tok = "INTEGER" -> "1"
      [] t.tok = "REAL"    -> "1.5"
      [] t.operand         -> "a"
      [] OTHER             -> t.name

Spelt(in) == [i \in 1..Len(in) |-> Spelling(in[i])]

\* A syntax file with the separators ; and newline, the four kinds of
\* blocks, and - as an infix and a prefix operator.
BlockSyntax(semi, nl) ==
    [infix_priority     |-> (";" :> semi) @@ ("\n" :> nl)
                            @@ ("-" :> MaxPrio + 1)
                            @@ ("INDENT" :> 1) @@ ("UNINDENT" :> 1)
                            @@ ("{" :> 1) @@ ("}" :> 1)
                            @@ ("(" :> MaxPrio + 3) @@ (")" :> MaxPrio + 3)
                            @@ ("[" :> MaxPrio + 3) @@ ("]" :> MaxPrio + 3),
     prefix_priority    |-> ("-" :> MaxPrio + 2),
     postfix_priority   |-> NoPriorities,
     block_delimiters   |-> ("INDENT" :> "UNINDENT") @@ ("UNINDENT" :> "")
                            @@ ("{" :> "}") @@ ("}" :> "")
                            @@ ("(" :> ")") @@ (")" :> "")
                            @@ ("[" :> "]") @@ ("]" :> ""),
     default_priority   |-> 0,
     statement_priority |-> MaxPrio,
     function_priority  |-> MaxPrio + 4]

BlockConfigs ==
    { [syntax |-> BlockSyntax(semi, nl), signedConstants |-> sc] :
          semi \in {2, 3}, nl \in {2, 3}, sc \in BOOLEAN }

\* The texts read under a syntax with blocks, as Parse gets them from
\* NextToken; a text may end after any of its tokens.
Texts ==
    { <<"{", "a", ";", "a", ";", "a", "}">>,
      <<"INDENT", "a", "\n", "a", "\n", "a", "UNINDENT", "\n">>,
      <<"a", "{", "a", ";", "a", "}">>,
      <<"a", "INDENT", "a", "\n", "a", "UNINDENT", "\n">>,
      <<"(", ")">>, <<"[", "]">>, <<"{", "}">>, <<"INDENT", "UNINDENT">>,
      <<"a", "(", ")">>, <<"(", "[", "]", ")">>, <<"(", "a", "(">>,
      <<"(", "1", ";", "1", ")">>, <<"[", "a", "a", "]">>,
      <<"(", "a", "]">>, <<"(", "a", "UNINDENT">>, <<"INDENT", "a", ")">>,
      <<"a", ")">>, <<"a", "UNINDENT">>,
      <<"-", "1">>, <<"-", "1.5">>, <<"-", "a">>, <<"-", "(", "1", ")">>,
      <<"-", "-", "1">>, <<"a", "-", "1.5">>, <<"a", "-", "1">>,
      <<"1", "-", "1.5">>, <<"-", "1", "-", "1">>,
      <<"a", "1">>, <<"a", "1.5">> }

\* The texts the scanner can deliver: any tokens up to MaxTokens under a
\* syntax without blocks, one of the texts above under a syntax with blocks.
Readable(syn, in) ==
    IF DOMAIN syn.block_delimiters = {}
    THEN Len(in) <= MaxTokens
    ELSE \E text \in Texts :
            /\ Len(in) <= Len(text)
            /\ \A i \in 1..Len(in) : Spelling(in[i]) = text[i]

----------------------------------------------------------------------------
(* Types: the inference the binder consults.  A type is the name of a type   *)
(* ("#" is a generic type variable, NoType a null type).                     *)

NoType == "none"

\* A step of a sequence of statements: v is computed, then F goes on with it.
Then(v, F(_)) == CHOOSE r \in { F(x) : x \in {v} } : TRUE

\* Types::Unify: a generic or tree joins anything, two other types must be
\* the same type; a null type unifies with nothing.
UnifyTypes(t1, t2) ==
    /\ t1 # NoType /\ t2 # NoType
    /\ \/ t1 = t2
       \/ t1 \in {"#", "tree"}
       \/ t2 \in {"#", "tree"}

\* The representative of two unified types: the more specific one.
JoinTypes(t1, t2) == IF t1 \in {"#", "tree"} THEN t2 ELSE t1

\* Types::DeclaredTypeName: the model's types are already type names.
DeclaredTypeName(t) == t

\* The tree kind of a type: a type name is a Name.
TypeKind(t) == "Name"

\* Types::EvaluateType: the type a type expression names.
EvaluateType(declType) ==
    IF declType.kind = "Name" THEN declType.value ELSE NoType

\* The symbol whose rules give a compound expression its type.
HeadSymbol(t) ==
    CASE t.kind = "Infix" -> t.name
      [] t.kind = "Prefix" -> IF t.left.kind = "Name" THEN t.left.value ELSE ""
      [] t.kind = "Postfix" ->
            IF t.right.kind = "Name" THEN t.right.value ELSE ""
      [] OTHER -> ""

RECURSIVE TypeIn(_, _)
\* Types::Type in the call site's types: a constant has its literal type, a
\* name its declared type or a fresh generic, a compound the type its rules
\* return, if any.
TypeIn(env, t) ==
    CASE t.kind = "Integer" -> "integer"
      [] t.kind = "Real" -> "real"
      [] t.kind = "Text" -> "text"
      [] t.kind = "Name" ->
            IF t.value \in DOMAIN env THEN env[t.value] ELSE "#"
      [] t.kind = "Block" -> TypeIn(env, t.child)
      [] OTHER ->
            IF HeadSymbol(t) \in DOMAIN env THEN env[HeadSymbol(t)] ELSE NoType

\* Types::Type in the candidate's types: what was assigned there comes first.
TypeOf(k, c, t) ==
    IF t \in DOMAIN c.types THEN c.types[t] ELSE TypeIn(k.env, t)

\* Types::AssignType: record T for an expression without a type, otherwise
\* unify its type with T; a failure is reported to the error sink.
AssignType(k, c, expr, T) ==
    LET had == IF expr \in DOMAIN c.types THEN c.types[expr]
               ELSE IF expr = k.what \/ expr.kind \in {"Integer", "Real", "Text"}
               THEN TypeIn(k.env, expr)
               ELSE NoType
    IN IF T = NoType
       THEN [type |-> NoType, c |-> c]
       ELSE IF had = NoType
       THEN [type |-> T, c |-> [c EXCEPT !.types = (expr :> T) @@ @]]
       ELSE IF UnifyTypes(had, T)
       THEN [type |-> JoinTypes(had, T),
             c |-> [c EXCEPT !.types = (expr :> JoinTypes(had, T)) @@ @]]
       ELSE [type |-> NoType, c |-> [c EXCEPT !.errs = TRUE]]

----------------------------------------------------------------------------
(* Context: rules, scopes, and the names they bind *)

Rule(pattern, body) == Infix("is", pattern, body)

RewriteDefined_BlockFirst(form) ==
    LET f1 == IF form.kind = "Block" THEN form.child ELSE form
        f2 == IF f1.kind = "Infix" /\ f1.name \in {"as", ":"}
              THEN f1.left ELSE f1
    IN IF f2.kind = "Infix" /\ f2.name = "when" THEN f2.left ELSE f2

RewriteDefined(form) ==
    LET f1 == IF form.kind = "Infix" /\ form.name \in {"as", ":"}
              THEN form.left ELSE form
        f2 == IF f1.kind = "Infix" /\ f1.name = "when" THEN f1.left ELSE f1
    IN IF f2.kind = "Block" THEN f2.child ELSE f2

\* Where RewriteDefined(form) is inside form: a node is told from an equal
\* node elsewhere in the pattern by its path.
DefinedPath(form) ==
    LET typed == form.kind = "Infix" /\ form.name \in {"as", ":"}
        f1    == IF typed THEN form.left ELSE form
        p1    == IF typed THEN <<"left">> ELSE << >>
        guard == f1.kind = "Infix" /\ f1.name = "when"
        f2    == IF guard THEN f1.left ELSE f1
        p2    == IF guard THEN Append(p1, "left") ELSE p1
    IN IF f2.kind = "Block" THEN Append(p2, "child") ELSE p2

RewriteType(what_) ==
    IF what_.kind = "Infix" /\ what_.name = "as" THEN what_.right ELSE NULL

\* Context::Bound: the value a name is bound to, looked up in the
\* candidate's own scope and, when recurse is set, in the enclosing scopes.
Bound(k, c, n, recurse) ==
    IF n \in DOMAIN c.locals THEN c.locals[n]
    ELSE IF recurse /\ n \in DOMAIN k.enclosing THEN k.enclosing[n]
    ELSE NULL

\* Context::Define in the candidate's own scope.
Define(c, n, value) == [c EXCEPT !.locals = (n :> value) @@ @]

----------------------------------------------------------------------------
(* RewriteCandidate *)

NoTrees == [t \in {} |-> NULL]

\* A scope without declarations.
NoScope == [rules |-> << >>, enclosing |-> NoTrees, env |-> NoTrees]

\* No call site is being looked up.
LookupIdle ==
    /\ scope = NoScope
    /\ what = NULL
    /\ next = 0
    /\ candidates = << >>
    /\ checks = << >>
    /\ found = NULL

\* No declaration is being entered.
DeclIdle ==
    /\ declForm = NULL
    /\ definedForm = NULL

\* No argument is being passed.
ClosureIdle == argument = NULL

\* MakeClosure is not being called.
InterpIdle == interp = NULL

\* No function is being called, no syntax file or token is being read.
RestIdle == invoked = NULL /\ reader = NULL /\ lexer = NULL

\* RewriteCandidate::RewriteCandidate
NewCandidate(rewrite) ==
    [rewrite    |-> rewrite,
     bindings   |-> << >>,
     conditions |-> << >>,
     kinds      |-> << >>,
     locals     |-> NoTrees,
     types      |-> NoTrees,
     errs       |-> FALSE,
     type       |-> NoType,
     strength   |-> "FAILED"]

RewriteBinding(n, v) == [name |-> n, value |-> v]

\* RewriteCandidate::Condition
Condition(c, value, test) ==
    [c EXCEPT !.conditions = Append(@, [value |-> value, test |-> test])]

\* RewriteCandidate::KindCondition
KindCondition(c, value, kind) ==
    [c EXCEPT !.kinds = Append(@, [value |-> value, test |-> kind])]

\* RewriteCandidate::Unconditional
Unconditional(c) == Len(c.kinds) = 0 /\ Len(c.conditions) = 0

\* enum BindingStrength { FAILED, POSSIBLE, PERFECT }
Rank(s) == CASE s = "FAILED" -> 0 [] s = "POSSIBLE" -> 1 [] s = "PERFECT" -> 2

Weakest_Strongest(l, r) == IF Rank(l) > Rank(r) THEN l ELSE r

\* if (left > right) left = right
Weakest(l, r) == IF Rank(l) > Rank(r) THEN r ELSE l

Returns(c, s) == [c EXCEPT !.strength = s]

\* RewriteCandidate::ValueType
ValueType(k, value) == TypeIn(k.env, value)

UnifyKind_BooleanFree(valueType, formType) ==
    LET kd == TypeKind(valueType) IN
    IF kd = "Integer" \/ formType = "integer" THEN "INTEGER"
    ELSE IF kd = "Real" \/ formType = "real" THEN "REAL"
    ELSE IF kd = "Text" \/ formType = "text" THEN "TEXT"
    ELSE IF formType = "name" THEN "NAME"
    ELSE IF formType = "block" THEN "BLOCK"
    ELSE IF kd = "Infix" \/ formType = "infix" THEN "INFIX"
    ELSE IF formType = "prefix" THEN "PREFIX"
    ELSE IF formType = "postfix" THEN "POSTFIX"
    ELSE ""

\* The kind condition Unify records for a value whose type is tree.
UnifyKind(valueType, formType) ==
    LET kd == TypeKind(valueType) IN
    IF kd = "Integer" \/ formType = "integer" THEN "INTEGER"
    ELSE IF kd = "Real" \/ formType = "real" THEN "REAL"
    ELSE IF kd = "Text" \/ formType = "text" THEN "TEXT"
    ELSE IF formType = "name" \/ formType = "boolean" THEN "NAME"
    ELSE IF formType = "block" THEN "BLOCK"
    ELSE IF kd = "Infix" \/ formType = "infix" THEN "INFIX"
    ELSE IF formType = "prefix" THEN "PREFIX"
    ELSE IF formType = "postfix" THEN "POSTFIX"
    ELSE ""

\* RewriteCandidate::Unify
Unify(c, valueType, formType, value, form) ==
    LET kd == IF DeclaredTypeName(valueType) = "tree"
              THEN UnifyKind(valueType, DeclaredTypeName(formType)) ELSE ""
        c1 == IF kd # "" THEN KindCondition(c, value, kd) ELSE c
    IN IF UnifyTypes(valueType, formType)
       THEN [ok |-> TRUE, c |-> c1]
       ELSE [ok |-> FALSE, c |-> [c1 EXCEPT !.errs = TRUE]]

LiteralValue(t) ==
    CASE t.kind = "Integer" -> t.ivalue
      [] t.kind = "Real" -> t.rvalue
      [] t.kind = "Text" -> t.tvalue

LiteralType(t) ==
    CASE t.kind = "Integer" -> "integer"
      [] t.kind = "Real" -> "real"
      [] t.kind = "Text" -> "text"

SameConstant_Always(iv, f) == TRUE

\* iv->value == f->value
SameConstant(iv, f) == LiteralValue(iv) = LiteralValue(f)

\* BIND_CONSTANT
BindConstant(k, form, value, c) ==
    IF value.kind = form.kind
    THEN Returns(c, IF SameConstant(value, form) THEN "PERFECT" ELSE "FAILED")
    ELSE Then(Unify(c, ValueType(k, value), LiteralType(form), value, form),
              LAMBDA u :
                  IF u.ok
                  THEN Returns(Condition(u.c, value, form), "POSSIBLE")
                  ELSE Returns(u.c, "FAILED"))

IsDefinedName_Never(c, path) == FALSE

\* fname == name: the form is the very node RewriteDefined finds in the rule.
IsDefinedName(c, path) == path = DefinedPath(c.rewrite.left)

\* context->Bound(name, true); what it finds is a tree of the call site or of
\* an enclosing declaration, never the Name node of the pattern itself.
BoundInContext(k, c, name) == Bound(k, c, name.value, TRUE)

\* case NAME, the name is already bound: the value must be the one it has
BindDuplicate(k, form, value, c, type, bound) ==
    IF bound = NULL
    THEN [ok |-> TRUE, c |-> c]
    ELSE Then(Unify(c, type, ValueType(k, bound), value, form),
              LAMBDA u :
                  IF u.ok
                  THEN [ok |-> TRUE, c |-> Condition(u.c, value, form)]
                  ELSE u)

\* case NAME
BindName(k, form, path, value, c) ==
    IF IsDefinedName(c, path)
    THEN Returns(c, "PERFECT")
    ELSE IF ValueType(k, value) = NoType
    THEN Returns(c, "FAILED")
    ELSE
    Then(BoundInContext(k, c, form), LAMBDA bound :
    Then(BindDuplicate(k, form, value, c, ValueType(k, value), bound),
         LAMBDA dup :
    IF ~dup.ok
    THEN Returns(dup.c, "FAILED")
    ELSE
    Then(Unify(dup.c, ValueType(k, value), TypeOf(k, dup.c, form),
               value, form),
         LAMBDA u :
    IF ~u.ok
    THEN Returns(u.c, "FAILED")
    ELSE IF bound = NULL
    THEN Returns([Define(u.c, form.value, value) EXCEPT
                     !.bindings = Append(@, RewriteBinding(form, value))],
                 "POSSIBLE")
    ELSE Returns(u.c, "POSSIBLE"))))

RECURSIVE Bind(_, _, _, _, _)

\* case INFIX, name ":" or "as"
BindTyped(k, fi, path, value, c) ==
    Then(AssignType(k, c, fi.left, EvaluateType(fi.right)), LAMBDA a :
    Then(Bind(k, fi.left, Append(path, "left"), value, a.c), LAMBDA b :
    IF b.strength = "FAILED"
    THEN b
    ELSE
    Then(Unify(b, TypeOf(k, b, value), a.type, value, fi.left), LAMBDA u :
    IF ~u.ok
    THEN Returns(u.c, "FAILED")
    ELSE Returns(u.c, IF Unconditional(u.c) THEN "PERFECT" ELSE "POSSIBLE"))))

GuardStrength_Kept(left_) == left_

\* The guard makes the binding weak.
GuardStrength(left_) == "POSSIBLE"

\* case INFIX, name "when"
BindGuard(k, fi, path, value, c) ==
    Then(Bind(k, fi.left, Append(path, "left"), value, c), LAMBDA b :
    IF b.strength = "FAILED"
    THEN b
    ELSE IF TypeOf(k, b, fi.right) = NoType
    THEN Returns(b, "FAILED")
    ELSE
    Then(Unify(b, TypeOf(k, b, fi.right), "boolean", fi.right, fi.left),
         LAMBDA u :
    IF ~u.ok
    THEN Returns(u.c, "FAILED")
    ELSE Returns(Condition(u.c, fi.right, Name("true")),
                 GuardStrength(b.strength))))

\* case INFIX, the value is an infix with the same name
BindSameInfix(k, fi, path, infix, c) ==
    Then(Bind(k, fi.left, Append(path, "left"), infix.left, c), LAMBDA l :
    IF l.strength = "FAILED"
    THEN l
    ELSE
    Then(Bind(k, fi.right, Append(path, "right"), infix.right, l), LAMBDA r :
    Returns(r, Weakest(l.strength, r.strength))))

\* case INFIX, the value may evaluate as an infix: a runtime pattern match
BindRuntimeInfix(k, fi, path, value, c) ==
    IF TypeOf(k, c, value) = NoType
    THEN Returns(c, "FAILED")
    ELSE
    Then(Unify(c, TypeOf(k, c, value), "infix", value, fi), LAMBDA u :
    IF ~u.ok
    THEN Returns(u.c, "FAILED")
    ELSE
    Then(Bind(k, fi.left, Append(path, "left"),
              Prefix(Name("left"), value), u.c),
         LAMBDA l :
    IF l.strength = "FAILED"
    THEN l
    ELSE
    Then(Bind(k, fi.right, Append(path, "right"),
              Prefix(Name("right"), value), l),
         LAMBDA r :
    LET infixName == Prefix(Name("name"), value)
        infixRequiredName == Text(fi.name, "\"", "\"")
    IN IF TypeOf(k, r, infixName) = NoType
       THEN Returns(r, "FAILED")
       ELSE IF TypeOf(k, r, infixRequiredName) = NoType
       THEN Returns(r, "FAILED")
       ELSE Returns(Condition(r, infixName, infixRequiredName),
                    Weakest(l.strength, r.strength)))))

BindBinary_AnyHead(k, form1, value1, form2, path2, value2, c) == Bind(k, form2, path2, value2, c)

\* RewriteCandidate::BindBinary
BindBinary(k, form1, value1, form2, path2, value2, c) ==
    IF form1.kind # "Name" THEN Returns(c, "FAILED")
    ELSE IF value1.kind # "Name" THEN Returns(c, "FAILED")
    ELSE IF form1.value # value1.value THEN Returns(c, "FAILED")
    ELSE Bind(k, form2, path2, value2, c)

BindBlock_SameBrackets(k, block, path, value, c) == IF value.kind = "Block" /\ value.opening # block.opening THEN Returns(c, "FAILED") ELSE Bind(k, block.child, Append(path, "child"), value, c)

\* case BLOCK: ignore blocks, just look inside
BindBlock(k, block, path, value, c) == Bind(k, block.child, Append(path, "child"), value, c)

\* RewriteCandidate::Bind
Bind(k, form, path, value, c) ==
    CASE form.kind \in {"Integer", "Real", "Text"} ->
            BindConstant(k, form, value, c)
      [] form.kind = "Name" ->
            BindName(k, form, path, value, c)
      [] form.kind = "Infix" ->
            IF form.name \in {":", "as"}
            THEN BindTyped(k, form, path, value, c)
            ELSE IF form.name = "when"
            THEN BindGuard(k, form, path, value, c)
            ELSE IF value.kind = "Infix" /\ form.name = value.name
            THEN BindSameInfix(k, form, path, value, c)
            ELSE BindRuntimeInfix(k, form, path, value, c)
      [] form.kind = "Prefix" ->
            IF value.kind = "Prefix"
            THEN BindBinary(k, form.left, value.left, form.right,
                            Append(path, "right"), value.right, c)
            ELSE Returns(c, "FAILED")
      [] form.kind = "Postfix" ->
            IF value.kind = "Postfix"
            THEN BindBinary(k, form.right, value.right, form.left,
                            Append(path, "left"), value.left, c)
            ELSE Returns(c, "FAILED")
      [] form.kind = "Block" ->
            BindBlock(k, form, path, value, c)
      [] OTHER -> Returns(c, "FAILED")

----------------------------------------------------------------------------
(* Parser: one action per token class of the switch in Parse *)

ParseInit ==
    /\ \E c \in ParserConfigs :
          /\ syntax = c.syntax
          /\ signedConstants = c.signedConstants
          /\ frames = << NewFrame(c.syntax, "") >>
    /\ input = << >>
    /\ hadSpaceBefore = FALSE
    /\ hadSpaceAfter = FALSE
    /\ errors = << >>
    /\ parsed = NULL
    /\ previous = NULL
    /\ LookupIdle
    /\ DeclIdle
    /\ ClosureIdle
    /\ InterpIdle
    /\ RestIdle

Parsing == Len(frames) > 0

Top == frames[Len(frames)]

\* NextToken: the scanner's token and its spacing reach the parser.
Deliver(t, after) ==
    /\ input' = Append(input, t)
    /\ hadSpaceBefore' = hadSpaceAfter
    /\ hadSpaceAfter' = after

Enclose_Bare(f, content) ==
    [f EXCEPT !.right = Block(content, f.blk_opening, f.blk_closing)]

Enclose_InBraces(f, content) ==
    [f EXCEPT !.right = Block(IF content = NULL THEN Name("") ELSE content,
                              "{", "}")]

\* case tokPAROPEN, after the inner Parse has returned: () holds an empty
\* name, and the content is wrapped in a block.
Enclose(f, content) ==
    [f EXCEPT !.right = Block(IF content = NULL THEN Name("") ELSE content,
                              f.blk_opening, f.blk_closing)]

\* The end of a loop iteration of the innermost Parse: loop again, or
\* return, to the caller or to the Parse that was reading a block.
Continue(f) ==
    IF ~f.done
    THEN /\ frames' = [frames EXCEPT ![Len(frames)] = f]
         /\ parsed' = parsed
    ELSE IF Len(frames) = 1
    THEN /\ frames' = << >>
         /\ parsed' = Drain(f, signedConstants)
    ELSE /\ \E outer \in { Combine(Enclose(frames[Len(frames) - 1],
                                           Drain(f, signedConstants)),
                                   signedConstants) } :
               frames' = Append(SubSeq(frames, 1, Len(frames) - 2), outer)
         /\ parsed' = parsed

\* case tokINTEGER
ParseInteger ==
    /\ Parsing
    /\ \E after \in BOOLEAN :
          LET v == NextOperand(input) + 1
              t == Token("INTEGER", "", v, TRUE)
          IN
          /\ Readable(syntax, Append(input, t))
          /\ Deliver(t, after)
          /\ Continue(Combine(SwitchConstant(BeginToken(Top), Integer(v)),
                              signedConstants))
    /\ UNCHANGED <<syntax, signedConstants, errors, previous>>
    /\ UNCHANGED notParser

\* case tokREAL
ParseReal ==
    /\ Parsing
    /\ \E after \in BOOLEAN :
          LET v == NextOperand(input) + 1
              t == Token("REAL", "", v, TRUE)
          IN
          /\ Readable(syntax, Append(input, t))
          /\ Deliver(t, after)
          /\ Continue(Combine(SwitchConstant(BeginToken(Top), Real(v)),
                              signedConstants))
    /\ UNCHANGED <<syntax, signedConstants, errors, previous>>
    /\ UNCHANGED notParser

\* case tokNAME, tokSYMBOL
ParseName ==
    /\ Parsing
    /\ \E after \in BOOLEAN :
       \E n \in {OperandNames[NextOperand(input)]} \cup Operators(syntax) :
          LET t == Token(TokenKind(n), n, 0, n \notin Operators(syntax)) IN
          /\ Readable(syntax, Append(input, t))
          /\ Deliver(t, after)
          /\ Continue(Combine(SwitchName(BeginToken(Top), syntax,
                                         signedConstants, TokenKind(n), n,
                                         hadSpaceAfter, after),
                              signedConstants))
    /\ UNCHANGED <<syntax, signedConstants, errors, previous>>
    /\ UNCHANGED notParser

\* case tokNEWLINE
ParseNewline ==
    /\ Parsing
    /\ LET t == Token("NEWLINE", "\n", 0, FALSE)
           f == BeginToken(Top)
       IN
       /\ Readable(syntax, Append(input, t))
       /\ Deliver(t, FALSE)
       /\ Continue(Combine([f EXCEPT !.infix = "\n",
                                     !.infix_priority =
                                         InfixPriority(syntax, "\n"),
                                     !.left = f.result],
                           signedConstants))
    /\ UNCHANGED <<syntax, signedConstants, errors, previous>>
    /\ UNCHANGED notParser

\* case tokINDENT, tokPAROPEN, up to the inner call of Parse.
ParseOpen ==
    /\ Parsing
    /\ \E after \in BOOLEAN :
       \E opening \in { o \in DOMAIN syntax.block_delimiters :
                           syntax.block_delimiters[o] # "" } :
          LET t == Token(IF opening = "INDENT" THEN "INDENT" ELSE "PAROPEN",
                         opening, 0, FALSE)
              f == BeginToken(Top)
              closing == syntax.block_delimiters[opening]
              paren == InfixPriority(syntax, opening)
          IN
          /\ Readable(syntax, Append(input, t))
          /\ Deliver(t, after)
          /\ frames' = Append([frames EXCEPT ![Len(frames)] =
                                  [f EXCEPT !.blk_opening = opening,
                                            !.blk_closing = closing,
                                            !.paren_priority = paren,
                                            !.prefix_priority = paren,
                                            !.infix_priority =
                                                f.default_priority]],
                              NewFrame(syntax, closing))
    /\ UNCHANGED <<syntax, signedConstants, errors, parsed, previous>>
    /\ UNCHANGED notParser

\* case tokPARCLOSE, tokUNINDENT
ParseClose ==
    /\ Parsing
    /\ \E after \in BOOLEAN :
       \E closing \in { c \in DOMAIN syntax.block_delimiters :
                           syntax.block_delimiters[c] = "" } :
          LET t == Token(IF closing = "UNINDENT" THEN "UNINDENT"
                         ELSE "PARCLOSE", closing, 0, FALSE)
              f == BeginToken(Top)
          IN
          /\ Readable(syntax, Append(input, t))
          /\ Deliver(t, after)
          /\ errors' = IF closing = "UNINDENT"
                       THEN IF f.closing # "UNINDENT"
                            THEN Append(errors, "Mismatched identation")
                            ELSE errors
                       ELSE IF closing # f.closing
                            THEN Append(errors, "Mismatched parentheses")
                            ELSE errors
          /\ Continue(Combine([f EXCEPT !.done = TRUE], signedConstants))
    /\ UNCHANGED <<syntax, signedConstants, previous>>
    /\ UNCHANGED notParser

Unterminated_AnyBlock(closing) == closing # ""

\* The end of the text comes where a closing delimiter is expected.
Unterminated(closing) == closing # "" /\ closing # "UNINDENT"

\* case tokEOF
ParseEOF ==
    /\ Parsing
    /\ LET f == BeginToken(Top) IN
          /\ Deliver(Token("EOF", "", 0, FALSE), FALSE)
          /\ errors' = IF Unterminated(f.closing)
                       THEN Append(errors, "Unexpected end of text")
                       ELSE errors
          /\ Continue(Combine([f EXCEPT !.done = TRUE], signedConstants))
    /\ UNCHANGED <<syntax, signedConstants, previous>>
    /\ UNCHANGED notParser

ParseNext == ParseInteger \/ ParseName \/ ParseEOF

SpecParse == ParseInit /\ [][ParseNext]_vars

\* A Parser is made for a text in a syntax with blocks.
BlocksInit ==
    /\ \E c \in BlockConfigs :
          /\ syntax = c.syntax
          /\ signedConstants = c.signedConstants
          /\ frames = << NewFrame(c.syntax, "") >>
    /\ input = << >>
    /\ hadSpaceBefore = FALSE
    /\ hadSpaceAfter = FALSE
    /\ errors = << >>
    /\ parsed = NULL
    /\ previous = NULL
    /\ LookupIdle
    /\ DeclIdle
    /\ ClosureIdle
    /\ InterpIdle
    /\ RestIdle

WordsInit ==
    /\ \E c \in WordConfigs :
          /\ syntax = c.syntax
          /\ signedConstants = c.signedConstants
          /\ frames = << NewFrame(c.syntax, "") >>
    /\ input = << >>
    /\ hadSpaceBefore = FALSE
    /\ hadSpaceAfter = FALSE
    /\ errors = << >>
    /\ parsed = NULL
    /\ previous = NULL
    /\ LookupIdle
    /\ DeclIdle
    /\ ClosureIdle
    /\ InterpIdle
    /\ RestIdle

SpecWords == WordsInit /\ [][ParseNext]_vars

\* Parse has returned at the end of one of the texts, and a second Parser
\* is made, with the same syntax, for another text.
ParseAnother ==
    /\ ~Parsing
    /\ previous = NULL
    /\ Len(input) > 0
    /\ Spelt(SubSeq(input, 1, Len(input) - 1)) \in Texts
    /\ previous' = [input |-> input, errors |-> errors, parsed |-> parsed]
    /\ frames' = << NewFrame(syntax, "") >>
    /\ input' = << >>
    /\ hadSpaceBefore' = FALSE
    /\ hadSpaceAfter' = FALSE
    /\ errors' = << >>
    /\ parsed' = NULL
    /\ UNCHANGED <<syntax, signedConstants>>
    /\ UNCHANGED notParser

BlocksNext ==
    \/ ParseInteger
    \/ ParseReal
    \/ ParseName
    \/ ParseNewline
    \/ ParseOpen
    \/ ParseClose
    \/ ParseEOF
    \/ ParseAnother

SpecBlocks == BlocksInit /\ [][BlocksNext]_vars

----------------------------------------------------------------------------
(* RewriteCalls: checking the candidate rules of a call site *)

IsBuiltin(init) ==
    \/ init.kind = "Name" /\ init.value = "C"
    \/ /\ init.kind = "Prefix"
       /\ init.left.kind = "Name"
       /\ init.left.value \in {"builtin", "C"}

Returned_NotFailed(binding, expr) == IF binding # "FAILED" THEN expr ELSE NULL

\* The value Check hands back to the lookup.
Returned(binding, expr) == IF binding = "PERFECT" THEN expr ELSE NULL

\* If we have a declared type, it is assigned to the body and the call site.
CheckDeclared(k, expr, init, type, b) ==
    IF type = NoType
    THEN [c |-> b, type |-> type, binding |-> b.strength]
    ELSE Then(AssignType(k, b, init, type), LAMBDA a1 :
         Then(AssignType(k, a1.c, expr, a1.type), LAMBDA a2 :
         [c |-> a2.c, type |-> a2.type,
          binding |-> IF a2.type = NoType THEN "FAILED" ELSE b.strength]))

\* The body is typed, unless it is a builtin or a C function.
CheckBody(k, init, declType, s) ==
    IF s.binding = "FAILED" THEN s
    ELSE IF ~IsBuiltin(init)
    THEN Then(TypeOf(k, s.c, init), LAMBDA t :
         [s EXCEPT !.type = t,
                   !.binding = IF t = NoType THEN "FAILED" ELSE @])
    ELSE IF declType = NULL THEN [s EXCEPT !.type = "#"]
    ELSE s

\* The form and the defined entity take the type of the body.
CheckForm(k, form, defined, s) ==
    IF s.binding = "FAILED" \/ s.type = NoType THEN s
    ELSE Then(AssignType(k, s.c, form, s.type), LAMBDA a3 :
         Then(IF DefinedPath(form) # << >>
              THEN AssignType(k, a3.c, defined, a3.type) ELSE a3,
              LAMBDA a4 :
         [s EXCEPT !.c = a4.c, !.type = a4.type]))

\* errors.HadErrors()
CheckErrors(s) == IF s.c.errs THEN [s EXCEPT !.binding = "FAILED"] ELSE s

\* The call site takes the type of the candidate.
CheckCallSite(k, expr, s) ==
    IF s.binding = "FAILED" THEN s
    ELSE Then(AssignType(k, s.c, expr, s.type), LAMBDA a5 :
         [c |-> a5.c, type |-> a5.type,
          binding |-> IF a5.type = NoType THEN "FAILED" ELSE s.binding])

\* RewriteCalls::Check
Check(k, expr, candidate) ==
    LET form     == candidate.left
        defined  == RewriteDefined(form)
        declType == RewriteType(form)
        type     == IF declType # NULL THEN EvaluateType(declType) ELSE NoType
        init     == candidate.right
    IN
    Then(Bind(k, defined, DefinedPath(form), expr, NewCandidate(candidate)),
         LAMBDA b :
    IF b.strength = "FAILED"
    THEN [rewrite |-> candidate, bound |-> b, binding |-> "FAILED",
          rc |-> b, result |-> NULL]
    ELSE
    Then(CheckDeclared(k, expr, init, type, b), LAMBDA s1 :
    Then(CheckBody(k, init, declType, s1), LAMBDA s2 :
    Then(CheckForm(k, form, defined, s2), LAMBDA s3 :
    Then(CheckCallSite(k, expr, CheckErrors(s3)), LAMBDA s5 :
    [rewrite |-> candidate, bound |-> b, binding |-> s5.binding,
     rc |-> [s5.c EXCEPT !.type = s5.type],
     result |-> Returned(s5.binding, expr)])))))

----------------------------------------------------------------------------
(* RewriteCalls: the declarations and the call sites of the model *)

MaxRules == 2           \* declarations in the scope of a looked up call site

Paren(t) == Block(t, "(", ")")

Quoted(t) == Text(t, "\"", "\"")

Call(f, arg) == Prefix(Name(f), arg)

Greater(l, r) == Infix(">", l, r)

\* 0 is 1
FactorialBase == Rule(Integer(0), Integer(1))

\* N is N * 2
FactorialStep == Rule(Name("N"), Infix("*", Name("N"), Integer(2)))

\* (F when G) as integer is Body
Guarded(F, G, body) ==
    Rule(Infix("as", Paren(Infix("when", F, G)), Name("integer")), body)

Typed(n, t) == Infix(":", Name(n), Name(t))

BindRules ==
    { FactorialBase,
      FactorialStep,
      Rule(Quoted("x"), Integer(1)),
      Rule(Real(2), Integer(1)),
      Rule(Call("f", Integer(0)), Integer(1)),
      Rule(Call("f", Name("X")), Name("X")),
      Rule(Call("f", Typed("X", "integer")), Name("X")),
      Rule(Infix("as", Call("f", Name("X")), Name("integer")),
           Call("builtin", Name("g"))),
      Rule(Postfix(Name("X"), Name("!")), Name("X")),
      Rule(Prefix(Paren(Name("f")), Name("X")), Name("X")),
      Rule(Call("f", Paren(Name("X"))), Name("X")),
      Rule(Call("f", Block(Integer(0), "{", "}")), Integer(1)),
      Rule(Infix("+", Name("X"), Name("X")), Name("X")),
      Rule(Infix("+", Name("X"), Name("Y")), Name("X")),
      Rule(Infix("+", Typed("X", "tree"), Typed("Y", "tree")), Name("X")),
      Rule(Infix("+", Typed("X", "integer"), Integer(3)), Name("X")),
      Guarded(Name("X"), Greater(Name("X"), Integer(0)), Name("X")),
      Guarded(Typed("X", "integer"), Greater(Name("X"), Integer(0)),
              Name("X")),
      Guarded(Integer(0), Greater(Name("v"), Integer(0)), Integer(1)) }

CallRules ==
    { FactorialBase,
      FactorialStep,
      Rule(Call("f", Integer(0)), Integer(1)),
      Rule(Call("f", Name("X")), Name("X")) }

\* A Real of the model has an integral value.
CallSites ==
    { Integer(0), Integer(3), Quoted("x"), Text("x", "'", "'"), Quoted("y"),
      Real(2), Real(3), Name("v"),
      Call("f", Integer(0)), Call("f", Integer(3)), Call("f", Name("v")),
      Infix("+", Integer(3), Integer(3)), Infix("+", Integer(3), Name("v")),
      Infix("+", Quoted("x"), Integer(3)),
      Call("g", Integer(3)), Prefix(Paren(Name("f")), Integer(3)),
      Call("f", Block(Integer(3), "[", "]")),
      Postfix(Integer(3), Name("!")), Postfix(Integer(3), Name("%")) }

\* The types of the names and of the operators a call site may use: of v,
\* of a comparison, of the accessors left and right, and of the rest.
TypeEnv(v, gt, acc, rest) ==
    [n \in {"v", ">", "left", "right", "name", "*", "+", "f", "!"} |->
        CASE n = "v" -> v
          [] n = ">" -> gt
          [] n \in {"left", "right"} -> acc
          [] n = "name" -> IF rest THEN "text" ELSE NoType
          [] n = "*" -> IF rest THEN "integer" ELSE NoType
          [] OTHER -> "integer"]

BindEnvs ==
    { TypeEnv(v, gt, acc, rest) :
          v \in {"integer", "tree", "infix", "text"},
          gt \in {"boolean", "integer", "tree", NoType},
          acc \in {"tree", "integer", NoType},
          rest \in BOOLEAN }

CallEnvs ==
    { TypeEnv(v, "boolean", "tree", rest) :
          v \in {"integer", "tree"}, rest \in BOOLEAN }

\* What the scopes around the declarations bind: nothing, or X.
Enclosings == { NoTrees, "X" :> Integer(5) }

RECURSIVE RuleLists(_)
\* The declaration orders of n rules.
RuleLists(n) ==
    IF n = 0 THEN { << >> }
    ELSE { Append(l, r) : l \in RuleLists(n - 1), r \in CallRules }

----------------------------------------------------------------------------
(* RewriteCalls: the lookup that offers each rule in scope to Check *)

ParserIdle ==
    /\ syntax = NoPriorities
    /\ frames = << >>
    /\ input = << >>
    /\ hadSpaceBefore = FALSE
    /\ hadSpaceAfter = FALSE
    /\ signedConstants = FALSE
    /\ errors = << >>
    /\ parsed = NULL
    /\ previous = NULL

\* Neither the parser nor a declaration is at work.
CallsIdle ==
    /\ ParserIdle
    /\ DeclIdle
    /\ ClosureIdle
    /\ InterpIdle
    /\ RestIdle

LookupInit ==
    /\ next = 1
    /\ candidates = << >>
    /\ checks = << >>
    /\ found = NULL

\* One call site and one rule, over every typing of the model.
BindInit ==
    /\ CallsIdle
    /\ LookupInit
    /\ what \in CallSites
    /\ \E r \in BindRules, env \in BindEnvs, enc \in Enclosings :
          scope = [rules |-> << r >>, enclosing |-> enc, env |-> env]

\* One call site and the rules of a scope in their declaration order.
CallsInit ==
    /\ CallsIdle
    /\ LookupInit
    /\ what \in CallSites
    /\ \E n \in 1..MaxRules :
       \E rs \in RuleLists(n), env \in CallEnvs :
          scope = [rules |-> rs, enclosing |-> NoTrees, env |-> env]

\* Context::Lookup calling RewriteCalls::Check on the next rule in scope,
\* until a call returns a tree.
CheckNext ==
    /\ found = NULL
    /\ next \in 1..Len(scope.rules)
    /\ \E r \in { Check([env |-> scope.env, enclosing |-> scope.enclosing,
                        what |-> what],
                       what, scope.rules[next]) } :
          /\ checks' = Append(checks, r)
          /\ candidates' = IF r.binding # "FAILED"
                           THEN Append(candidates, r.rc) ELSE candidates
          /\ found' = r.result
    /\ next' = next + 1
    /\ UNCHANGED <<scope, what>>
    /\ UNCHANGED notCalls

SpecBind == BindInit /\ [][CheckNext]_vars

SpecCalls == CallsInit /\ [][CheckNext]_vars

----------------------------------------------------------------------------
(* Declarations: the form a pattern defines *)

MaxWraps == 3           \* annotations, guards and blocks around a form

\* The forms a declaration of the model defines.
BareForms ==
    { Name("f"), Call("f", Name("X")), Infix("+", Name("X"), Name("Y")) }

IsAnnotation(t) == t.kind = "Infix" /\ t.name \in {"as", ":"}

IsGuarded(t) == t.kind = "Infix" /\ t.name = "when"

RECURSIVE Wrappers(_)
\* What is wrapped around a form, outermost first.
Wrappers(t) ==
    IF IsAnnotation(t) THEN << "annotation" >> \o Wrappers(t.left)
    ELSE IF IsGuarded(t) THEN << "guard" >> \o Wrappers(t.left)
    ELSE IF t.kind = "Block" THEN << "block" >> \o Wrappers(t.child)
    ELSE << >>

DeclInit ==
    /\ ParserIdle
    /\ LookupIdle
    /\ ClosureIdle
    /\ InterpIdle
    /\ RestIdle
    /\ declForm \in BareForms
    /\ definedForm = RewriteDefined(declForm)

\* The pattern of the declaration gets one more wrapper, and the
\* declaration is entered with it.
Enter(p) ==
    /\ Len(Wrappers(declForm)) < MaxWraps
    /\ declForm' = p
    /\ definedForm' = RewriteDefined(p)
    /\ UNCHANGED notDecl

WrapAnnotation ==
    \E n \in {"as", ":"} : Enter(Infix(n, declForm, Name("integer")))

WrapGuard == Enter(Infix("when", declForm, Greater(Name("X"), Integer(0))))

WrapBlock ==
    \E br \in { <<"(", ")">>, <<"{", "}">> } :
        Enter(Block(declForm, br[1], br[2]))

DeclNext == WrapAnnotation \/ WrapGuard \/ WrapBlock

SpecDecl == DeclInit /\ [][DeclNext]_vars

----------------------------------------------------------------------------
(* RewriteBinding: the arguments that are passed as closures *)

MaxNesting == 2         \* blocks around a bound value

\* Block::IsIndent
IsIndent(block) == block.opening = "INDENT" /\ block.closing = "UNINDENT"

\* Block::IsBraces
IsBraces(block) == block.opening = "{" /\ block.closing = "}"

IsDeferred_NotInBlock(b) ==
    IF b.value.kind = "Block"
    THEN IsIndent(b.value) \/ IsBraces(b.value)
    ELSE b.value.kind = "Infix" /\ b.value.name \in {";", "\n", "is"}

\* RewriteBinding::IsDeferred
IsDeferred(b) ==
    LET value == b.value
        val   == IF /\ value.kind = "Block"
                    /\ ~(IsIndent(value) \/ IsBraces(value))
                    /\ value.child.kind = "Infix"
                 THEN value.child ELSE value
    IN IF value.kind = "Block" /\ (IsIndent(value) \/ IsBraces(value))
       THEN TRUE
       ELSE val.kind = "Infix" /\ val.name \in {";", "\n", "is"}

\* CompilerFunction::NamedClosure
NamedClosure(name, value) ==
    [kind |-> "Closure", name |-> name, value |-> value]

\* The values bound to a parameter, each under up to n blocks.
RECURSIVE BoundValues(_)
BoundValues(n) ==
    IF n = 0
    THEN { Integer(3), Name("a"), Call("f", Name("a")) }
         \cup { Infix(op, Name("a"), Name("b")) : op \in {";", "\n", "is", "+"} }
    ELSE BoundValues(n - 1)
         \cup { Block(v, br[1], br[2]) :
                    v \in BoundValues(n - 1),
                    br \in { <<"(", ")">>, <<"[", "]">>, <<"{", "}">>,
                             <<"INDENT", "UNINDENT">> } }

ClosureInit ==
    /\ ParserIdle
    /\ LookupIdle
    /\ DeclIdle
    /\ InterpIdle
    /\ RestIdle
    /\ \E v \in BoundValues(MaxNesting) :
          argument = [name |-> Name("X"), value |-> v, closure |-> NULL,
                     asked |-> FALSE]

\* RewriteBinding::Closure
Closure ==
    /\ argument' = [argument EXCEPT
                      !.closure = IF @ = NULL /\ IsDeferred(argument)
                                  THEN NamedClosure(argument.name, argument.value)
                                  ELSE @,
                      !.asked = TRUE]
    /\ UNCHANGED notClosure

SpecClosure == ClosureInit /\ [][Closure]_vars

----------------------------------------------------------------------------
(* Interpreter: closures *)

\* The order of the kinds of a tree.
KindOrder(kd) ==
    CASE kd = "Integer" -> 0
      [] kd = "Real"    -> 1
      [] kd = "Text"    -> 2
      [] kd = "Name"    -> 3
      [] kd = "Infix"   -> 4
      [] kd = "Prefix"  -> 5
      [] kd = "Postfix" -> 6
      [] kd = "Block"   -> 7

\* A scope holding the declarations locals inside the scope parent.
Scope(parent, locals) == Prefix(parent, locals)

\* ScopeParent
ScopeParent(s) == IF s.left.kind = "Prefix" THEN s.left ELSE NULL

\* ScopeLocals
ScopeLocals(s) == s.right

\* A Prefix carrying a ClosureInfo.
Marked(s, value) == [kind |-> "Prefix", left |-> s, right |-> value,
                     info |-> "ClosureInfo"]

\* Tree::GetInfo<ClosureInfo>
HasClosureInfo(t) == "info" \in DOMAIN t

RECURSIVE Declared(_, _)
\* The value the declarations of one scope give to a name.
Declared(locals, n) ==
    IF locals.kind # "Infix" THEN NULL
    ELSE IF locals.name = "is"
    THEN IF locals.left = n THEN locals.right ELSE NULL
    ELSE Then(Declared(locals.left, n),
              LAMBDA l : IF l # NULL THEN l ELSE Declared(locals.right, n))

RECURSIVE ContextBound(_, _)
\* Context::Bound, with recurse set: the innermost declaration of a name.
ContextBound(s, n) ==
    Then(Declared(ScopeLocals(s), n),
         LAMBDA l : IF l # NULL THEN l
                    ELSE IF ScopeParent(s) = NULL THEN NULL
                    ELSE ContextBound(ScopeParent(s), n))

\* Interpreter::IsClosure: the closed value and the scope it was closed in.
IsClosure(tree) ==
    IF /\ tree.kind = "Prefix"
       /\ ScopeParent(tree) # NULL
       /\ HasClosureInfo(tree)
    THEN [inside |-> tree.right, context |-> ScopeParent(tree)]
    ELSE [inside |-> NULL, context |-> NULL]

\* The results of comparing two pointers: trees that differ are two nodes,
\* trees that are alike may be one node or two.
SameNode(a, b) == IF a = b THEN BOOLEAN ELSE {FALSE}

Wrap_Always(context, value) == Marked(context, value)

\* Interpreter::MakeClosure: the closure made at the end of a pass.
Wrap(context, value) ==
    IF value.kind # "Prefix" \/ ~HasClosureInfo(value)
    THEN Marked(context, value)
    ELSE value

MaxScopes == 2          \* scopes around the value being closed

Empty == Name("")

Is(n, value) == Infix("is", Name(n), value)

Global == Scope(NULL, Is("a", Integer(3)))

\* The declarations of an outermost scope: none, a constant, two names
\* declared as one another, a name declared as itself, a closure.
GlobalLocals ==
    { Empty,
      Is("a", Integer(3)),
      Infix("\n", Is("a", Name("b")), Is("b", Name("a"))),
      Is("a", Name("a")),
      Is("a", Marked(Global, Name("a"))) }

\* The declarations of a scope inside another.
LocalLocals == { Empty, Is("b", Name("a")) }

RECURSIVE Scopes(_)
\* The scopes with up to n levels.
Scopes(n) ==
    IF n = 1 THEN { Scope(NULL, l) : l \in GlobalLocals }
    ELSE Scopes(n - 1)
         \cup { Scope(parent, l) : parent \in Scopes(n - 1), l \in LocalLocals }

\* The values that are closures already.
Closures ==
    { Marked(s, v) : s \in { Scope(NULL, Empty), Global, Scope(Global, Empty) },
                     v \in { Integer(3), Name("a") } }
    \cup { Marked(Scope(NULL, Empty), Marked(Global, Name("a"))) }

\* The values given to MakeClosure.
Values ==
    { Integer(3), Name("a"), Name("b"), Name("c"),
      Infix("+", Name("a"), Name("b")), Call("f", Name("a")),
      Block(Name("a"), "(", ")") }
    \cup Closures

InterpInit ==
    /\ ParserIdle
    /\ LookupIdle
    /\ DeclIdle
    /\ ClosureIdle
    /\ RestIdle
    /\ \E ctx \in Scopes(MaxScopes), v \in Values,
          rewrites \in { {}, {"Integer"} } :
          interp = [rewrites |-> rewrites, ctx |-> ctx, given |-> v,
                    context |-> ctx, value |-> v, pc |-> "retry",
                    call |-> 1, first |-> NULL]

\* The pass ends: MakeClosure returns the value v.
Return(v) == [interp EXCEPT !.value = v, !.pc = "done"]

\* The pass starts again in the context c for the value v.
Retry(c, v) == [interp EXCEPT !.context = c, !.value = v]

\* Interpreter::MakeClosure: one pass from the label retry.
MakeClosure ==
    /\ interp.pc = "retry"
    /\ LET value == interp.value
           context == interp.context
           bound == IF value.kind = "Name"
                    THEN ContextBound(context, value) ELSE NULL
           closed == IsClosure(bound)
       IN IF ~ \/ KindOrder(value.kind) >= KindOrder("Name")
               \/ value.kind \in interp.rewrites
          THEN interp' = Return(value)
          ELSE IF bound = NULL
          THEN interp' = Return(Wrap(context, value))
          ELSE IF closed.inside # NULL
          THEN \E same \in SameNode(value, closed.inside) :
                  interp' = IF ~same
                            THEN Retry(closed.context, closed.inside)
                            ELSE Retry(closed.context, bound)
          ELSE \E same \in SameNode(value, bound) :
                  interp' = IF ~same
                            THEN Retry(context, bound)
                            ELSE Return(Wrap(context, value))
    /\ UNCHANGED notInterp

\* MakeClosure is called in the same context on the value it returned.
Again ==
    /\ interp.pc = "done"
    /\ interp.call = 1
    /\ interp' = [interp EXCEPT !.first = interp.value, !.call = 2,
                                !.context = interp.ctx, !.pc = "retry"]
    /\ UNCHANGED notInterp

InterpNext == MakeClosure \/ Again

SpecInterp == InterpInit /\ [][InterpNext]_vars

\* MakeClosure, once called, runs: a pass that can be made is made.
SpecInterpFair == SpecInterp /\ WF_vars(MakeClosure)

----------------------------------------------------------------------------
(* RewriteCandidate::Unify, called on its own *)

\* The types of the values and of the forms.
TypeNames ==
    { "tree", "integer", "real", "text", "name", "boolean", "block",
      "infix", "prefix", "postfix", "#", NoType }

UnifyInit ==
    /\ ParserIdle /\ LookupIdle /\ DeclIdle /\ ClosureIdle /\ InterpIdle
    /\ reader = NULL
    /\ lexer = NULL
    /\ \E valueType \in TypeNames, formType \in TypeNames :
          invoked = [valueType |-> valueType, formType |-> formType,
                     value |-> Name("v"), form |-> Name("X"),
                     result |-> NULL]

\* RewriteCandidate::Unify on a candidate without conditions.
UnifyCall ==
    /\ invoked.result = NULL
    /\ \E r \in { Unify(NewCandidate(NULL), invoked.valueType,
                        invoked.formType, invoked.value, invoked.form) } :
          invoked' = [invoked EXCEPT !.result = r]
    /\ UNCHANGED <<reader, lexer>>
    /\ UNCHANGED notRest

SpecUnify == UnifyInit /\ [][UnifyCall]_vars

----------------------------------------------------------------------------
(* Context::Rehash.  A hash is the set of the positions of its bits that   *)
(* are 1, bit 0 being the lowest; the width of ulong depends on the build. *)

MaxBits == 2            \* bits that are 1 in a hash

\* The widths of unsigned long: 32 bits, and 64 bits on LP64 builds.
Widths == {32, 64}

\* h >> n
ShiftRight(h, n) == { i - n : i \in { j \in h : j >= n } }

\* h << n, in a word of the given width
ShiftLeft(h, n, width) == { i + n : i \in { j \in h : j + n < width } }

\* Context::Rehash: (h>>1) | (h<<31)
Rehash(h, width) == ShiftRight(h, 1) \cup ShiftLeft(h, 31, width)

RECURSIVE Hashes(_, _)
\* The hashes of a width with up to n bits that are 1.
Hashes(width, n) ==
    IF n = 0 THEN { {} }
    ELSE Hashes(width, n - 1)
         \cup { h \cup {i} : h \in Hashes(width, n - 1), i \in 0..(width - 1) }

RehashInit ==
    /\ ParserIdle /\ LookupIdle /\ DeclIdle /\ ClosureIdle /\ InterpIdle
    /\ reader = NULL
    /\ lexer = NULL
    /\ \E width \in Widths :
       \E h \in Hashes(width, MaxBits) :
          invoked = [width |-> width, h |-> h, from |-> {},
                     rehashed |-> FALSE]

RehashCall ==
    /\ ~invoked.rehashed
    /\ invoked' = [invoked EXCEPT !.h = Rehash(invoked.h, invoked.width),
                                  !.rehashed = TRUE,
                                  !.from = invoked.h]
    /\ UNCHANGED <<reader, lexer>>
    /\ UNCHANGED notRest

SpecRehash == RehashInit /\ [][RehashCall]_vars

----------------------------------------------------------------------------
(* Syntax::ReadSyntaxFile.  A text is the sequence of its characters; the  *)
(* counter indents is an unsigned 32-bit integer, kept as its two halves.  *)

Half == 65536           \* 2^16

\* An unsigned 32-bit integer.
Uint(hi, lo) == [hi |-> hi, lo |-> lo]

\* indents++
Increment(n) ==
    IF n.lo + 1 < Half THEN Uint(n.hi, n.lo + 1)
    ELSE Uint((n.hi + 1) % Half, 0)

\* indents--
Decrement(n) ==
    IF n.lo > 0 THEN Uint(n.hi, n.lo - 1)
    ELSE Uint((n.hi + Half - 1) % Half, Half - 1)

\* !indents
IsZero(n) == n.hi = 0 /\ n.lo = 0

INFIX == <<"I", "N", "F", "I", "X">>

PREFIX == <<"P", "R", "E", "F", "I", "X">>

POSTFIX == <<"P", "O", "S", "T", "F", "I", "X">>

BLOCK == <<"B", "L", "O", "C", "K">>

COMMENT == <<"C", "O", "M", "M", "E", "N", "T">>

TEXT == <<"T", "E", "X", "T">>

SYNTAX == <<"S", "Y", "N", "T", "A", "X">>

STATEMENT == <<"S", "T", "A", "T", "E", "M", "E", "N", "T">>

FUNCTION == <<"F", "U", "N", "C", "T", "I", "O", "N">>

DEFAULT == <<"D", "E", "F", "A", "U", "L", "T">>

NEWLINE == <<"N", "E", "W", "L", "I", "N", "E">>

\* Block::indent and Block::unindent
BlockIndent == <<"I+">>

BlockUnindent == <<"I-">>

\* enum State, in the order of its declaration
StateOrder(st) ==
    CASE st = "inUnknown"    -> 0
      [] st = "inPrefix"     -> 1
      [] st = "inInfix"      -> 2
      [] st = "inPostfix"    -> 3
      [] st = "inComment"    -> 4
      [] st = "inCommentDef" -> 5
      [] st = "inText"       -> 6
      [] st = "inTextDef"    -> 7
      [] st = "inBlock"      -> 8
      [] st = "inBlockDef"   -> 9
      [] st = "inSyntaxName" -> 10
      [] st = "inSyntax"     -> 11
      [] st = "inSyntaxDef"  -> 12

Prefixes_FirstOnly(t) == { SubSeq(t, 1, i) : i \in 1..(Len(t) - 2) }

\* t.substr(0, i) for i = 1 .. len - 1
Prefixes(t) == { SubSeq(t, 1, i) : i \in 1..(Len(t) - 1) }

NoTable == [t \in {} |-> 0]

\* table[txt] = v
Put(table, txt, v) == (txt :> v) @@ table

\* The token the scanner delivers at the position n of a source.
ScannerToken(source, n) ==
    IF n <= Len(source) THEN source[n]
    ELSE [tok |-> "EOF", text |-> << >>, ivalue |-> 0]

\* The keywords that name a section, and the state each one starts.
Sections ==
    (INFIX :> "inInfix") @@ (PREFIX :> "inPrefix")
    @@ (POSTFIX :> "inPostfix") @@ (BLOCK :> "inBlock")
    @@ (COMMENT :> "inComment") @@ (TEXT :> "inText")
    @@ (SYNTAX :> "inSyntaxName")

\* known_prefixes.insert(sub) ... known_tokens.insert(t)
KnowToken(r, t) ==
    [r EXCEPT !.known_prefixes = @ \cup Prefixes(t),
              !.known_tokens = @ \cup {t}]

\* case tokNAME, tokSYMBOL, tokSTRING, tokQUOTE, once the text is not a
\* keyword: the switch on the state.
Entered(r, txt) ==
    CASE r.state = "inPrefix" ->
            [r EXCEPT !.prefix_priority = Put(@, txt, r.priority)]
      [] r.state = "inPostfix" ->
            [r EXCEPT !.postfix_priority = Put(@, txt, r.priority)]
      [] r.state = "inInfix" ->
            [r EXCEPT !.infix_priority = Put(@, txt, r.priority)]
      [] r.state = "inComment" ->
            [r EXCEPT !.entry = txt, !.state = "inCommentDef"]
      [] r.state = "inCommentDef" ->
            [r EXCEPT !.comment_delimiters = Put(@, r.entry, txt),
                      !.state = "inComment"]
      [] r.state = "inText" ->
            [r EXCEPT !.entry = txt, !.state = "inTextDef"]
      [] r.state = "inTextDef" ->
            [r EXCEPT !.text_delimiters = Put(@, r.entry, txt),
                      !.state = "inText"]
      [] r.state = "inBlock" ->
            [r EXCEPT !.entry = txt, !.state = "inBlockDef",
                      !.infix_priority = Put(@, txt, r.priority)]
      [] r.state = "inBlockDef" ->
            [r EXCEPT !.block_delimiters =
                          Put(Put(@, r.entry, txt), txt, << >>),
                      !.infix_priority = Put(@, txt, r.priority),
                      !.state = "inBlock"]
      [] r.state = "inSyntaxName" ->
            [r EXCEPT !.childSyntax = txt, !.state = "inSyntax"]
      [] r.state = "inSyntax" ->
            [r EXCEPT !.entry = txt, !.state = "inSyntaxDef"]
      [] r.state = "inSyntaxDef" ->
            [r EXCEPT !.subsyntax_file = Put(@, r.entry, r.childSyntax),
                      !.state = "inSyntax"]
      [] OTHER -> r

Named_NoGlobals(r, text) ==
    IF text \in DOMAIN Sections THEN [r EXCEPT !.state = Sections[text]]
    ELSE Entered(r, text)

\* case tokNAME, tokSYMBOL, tokSTRING, tokQUOTE
Named(r, text) ==
    LET txt == IF text = NEWLINE THEN <<"\n">>
               ELSE IF text = <<"I", "N", "D", "E", "N", "T">>
                    THEN BlockIndent
               ELSE IF text = <<"U", "N", "I", "N", "D", "E", "N", "T">>
                    THEN BlockUnindent
               ELSE text IN
    IF txt \in DOMAIN Sections THEN [r EXCEPT !.state = Sections[txt]]
    ELSE IF txt = STATEMENT THEN [r EXCEPT !.statement_priority = r.priority]
    ELSE IF txt = FUNCTION THEN [r EXCEPT !.function_priority = r.priority]
    ELSE IF txt = DEFAULT THEN [r EXCEPT !.default_priority = r.priority]
    ELSE Entered(r, txt)

\* One turn of the loop of ReadSyntaxFile, for the token t.
Turn(r, t) ==
    LET r1 == IF t.tok = "SYMBOL"
                 \/ StateOrder(r.state) >= StateOrder("inComment")
              THEN KnowToken(r, t.text) ELSE r
        r2 == [r1 EXCEPT !.tok = t.tok, !.pos = @ + 1]
    IN CASE t.tok = "INTEGER" -> [r2 EXCEPT !.priority = t.ivalue]
         [] t.tok \in {"INDENT", "PAROPEN"} ->
               [r2 EXCEPT !.indents = Increment(@)]
         [] t.tok \in {"UNINDENT", "PARCLOSE"} ->
               [r2 EXCEPT !.indents = Decrement(@),
                          !.done = IsZero(Decrement(r.indents))]
         [] t.tok \in {"NAME", "SYMBOL", "STRING", "QUOTE"} ->
               Named(r2, t.text)
         [] OTHER -> r2

\* The longest syntax description read.
MaxFile == 3

SyntaxToken(tok, text) == [tok |-> tok, text |-> text, ivalue |-> 0]

\* The tokens of the syntax descriptions read.
SyntaxTokens ==
    { SyntaxToken("NAME", t) :
          t \in {INFIX, PREFIX, POSTFIX, BLOCK, COMMENT, TEXT, SYNTAX,
                 STATEMENT, FUNCTION, DEFAULT, <<"a", "b">>} }
    \cup { SyntaxToken("SYMBOL", <<"<", "<", "=">>),
           SyntaxToken("PAROPEN", <<"(">>), SyntaxToken("PARCLOSE", <<")">>),
           SyntaxToken("UNINDENT", BlockUnindent),
           [tok |-> "INTEGER", text |-> <<"3">>, ivalue |-> 3],
           [tok |-> "INTEGER", text |-> <<"5">>, ivalue |-> 5] }

SyntaxFiles == UNION { [1..n -> SyntaxTokens] : n \in 0..MaxFile }

\* The reader as ReadSyntaxFile starts: the locals of the function and the
\* tables of the syntax it fills.
NewReader(source, indents) ==
    [source |-> source, pos |-> 0, start |-> indents,
     state |-> "inUnknown", entry |-> << >>, tok |-> "NAME",
     priority |-> 0, done |-> FALSE, indents |-> indents,
     childSyntax |-> << >>,
     prefix_priority |-> NoTable, infix_priority |-> NoTable,
     postfix_priority |-> NoTable, comment_delimiters |-> NoTable,
     text_delimiters |-> NoTable, block_delimiters |-> NoTable,
     subsyntax_file |-> NoTable,
     statement_priority |-> 0, function_priority |-> 0,
     default_priority |-> 0,
     known_tokens |-> {}, known_prefixes |-> {}]

SyntaxInit ==
    /\ ParserIdle /\ LookupIdle /\ DeclIdle /\ ClosureIdle /\ InterpIdle
    /\ invoked = NULL /\ lexer = NULL
    /\ \E source \in SyntaxFiles, indents \in {Uint(0, 0), Uint(0, 1)} :
          reader = NewReader(source, indents)

\* while (tok != tokEOF && !done) { tok = scanner.NextToken(true); ... }
ReadSyntaxFile ==
    /\ reader.tok # "EOF" /\ ~reader.done
    /\ \E r \in { Turn(reader, ScannerToken(reader.source, reader.pos + 1)) } :
          reader' = r
    /\ UNCHANGED <<invoked, lexer>>
    /\ UNCHANGED notRest

SpecSyntax == SyntaxInit /\ [][ReadSyntaxFile]_vars

----------------------------------------------------------------------------
(* CompilerUnit::ValidCName, as RewriteFunction calls it on the tree a     *)
(* rule is defined as.  A label is the sequence of its characters.         *)

\* The longest C name tried.
MaxName == 3

\* isalpha(c) and isdigit(c) over the characters tried
IsAlpha(ch) == ch \in {"a"}

IsDigit(ch) == ch \in {"1"}

Characters == {"a", "1", "_", "-"}

Labels == UNION { [1..n -> Characters] : n \in 0..MaxName }

\* The label ValidCName reads from a tree; "" unless it is a name or a text.
LabelOf(tree) ==
    CASE tree.kind = "Name" -> tree.value
      [] tree.kind = "Text" -> tree.tvalue
      [] OTHER -> << >>

\* The positions of a label at which the loop of ValidCName stops.
InvalidAt(label) ==
    { i \in 1..Len(label) :
        /\ ~IsAlpha(label[i])
        /\ label[i] # "_"
        /\ ~(i # 1 /\ IsDigit(label[i])) }

\* The result of ValidCName and the error it reports, if any.
ValidCName(tree) ==
    LET label == LabelOf(tree) IN
    IF Len(label) = 0
    THEN [valid |-> FALSE, error |-> "No valid C name in $1"]
    ELSE IF InvalidAt(label) # {}
    THEN [valid |-> FALSE, error |-> "C name $1 contains invalid characters"]
    ELSE [valid |-> TRUE, error |-> ""]

CNameInit ==
    /\ ParserIdle /\ LookupIdle /\ DeclIdle /\ ClosureIdle /\ InterpIdle
    /\ reader = NULL /\ lexer = NULL
    /\ \E label \in Labels :
          \E tree \in {Name(label), Text(label, "\"", "\""), Integer(1)} :
             invoked = [tree |-> tree, called |-> FALSE, isC |-> FALSE,
                        label |-> << >>, error |-> ""]

\* if (ValidCName(defined, label)) isC = true;
RewriteFunction ==
    /\ ~invoked.called
    /\ \E r \in { ValidCName(invoked.tree) } :
          invoked' = [invoked EXCEPT !.called = TRUE, !.isC = r.valid,
                                     !.label = LabelOf(invoked.tree),
                                     !.error = r.error]
    /\ UNCHANGED <<reader, lexer>>
    /\ UNCHANGED notRest

SpecCName == CNameInit /\ [][RewriteFunction]_vars

----------------------------------------------------------------------------
(* Options::LibPath.  A text is the sequence of its characters; a size_t   *)
(* is kept as the integer of least magnitude congruent to it modulo 2^64,  *)
(* so that two of them are equal exactly when their integers are.          *)

\* The longest file name tried.
MaxPath == 3

\* text::npos, the size_t 2^64 - 1
Npos == -1

\* name.rfind(sub): where the last occurrence of sub in name starts.
Rfind(name, sub) ==
    LET at == { i \in 0..(Len(name) - Len(sub)) :
                  SubSeq(name, i + 1, i + Len(sub)) = sub }
    IN IF at = {} THEN Npos
       ELSE CHOOSE i \in at : \A j \in at : j <= i

\* name.find(sub): where the first occurrence of sub in name starts.
Find(name, sub) ==
    LET at == { i \in 0..(Len(name) - Len(sub)) :
                  SubSeq(name, i + 1, i + Len(sub)) = sub }
    IN IF at = {} THEN Npos
       ELSE CHOOSE i \in at : \A j \in at : i <= j

LibPath(name, extension, base) ==
    LET named == IF Rfind(name, extension) # Len(name) - Len(extension)
                 THEN name \o extension ELSE name
    IN IF Find(named, <<"/">>) = Npos THEN base \o named ELSE named

FileNames == UNION { [1..n -> {"s", ".", "/"}] : n \in 0..MaxPath }

Extensions == { <<".", "s">>, <<".", "s", "s">>, <<"s">> }

LibPathInit ==
    /\ ParserIdle /\ LookupIdle /\ DeclIdle /\ ClosureIdle /\ InterpIdle
    /\ reader = NULL /\ lexer = NULL
    /\ \E name \in FileNames, extension \in Extensions :
          invoked = [name |-> name, extension |-> extension,
                     base |-> <<"l", "/">>, called |-> FALSE,
                     path |-> << >>]

LibPathCall ==
    /\ ~invoked.called
    /\ \E r \in { LibPath(invoked.name, invoked.extension, invoked.base) } :
          invoked' = [invoked EXCEPT !.called = TRUE, !.path = r]
    /\ UNCHANGED <<reader, lexer>>
    /\ UNCHANGED notRest

SpecLibPath == LibPathInit /\ [][LibPathCall]_vars

----------------------------------------------------------------------------
(* Parser::NextToken: the tokens of the scanner as Parse gets them.  A     *)
(* token carries the place it has in the source, 0 for a newline that      *)
(* NextToken delivers from pending.                                        *)

\* The longest source the scanner reads.
MaxSource == 4

Scanned(tok, text) == [tok |-> tok, text |-> text]

\* The tokens the scanner delivers: a name, the infix else, an integer, the
\* line structure, the start of a comment to the end of the line or to */,
\* and the start of a long text.
ScannerTokens ==
    { Scanned("NAME", "a"), Scanned("NAME", "else"), Scanned("INTEGER", "1"),
      Scanned("NEWLINE", ""), Scanned("INDENT", ""), Scanned("UNINDENT", ""),
      Scanned("SYMBOL", "//"), Scanned("SYMBOL", "/*"),
      Scanned("SYMBOL", "<<") }

Sources == UNION { [1..n -> ScannerTokens] : n \in 0..MaxSource }

\* The syntax the parser reads these sources with.
LineSyntax(dflt) ==
    [infix_priority     |-> ("else" :> 1),
     prefix_priority    |-> NoPriorities,
     postfix_priority   |-> NoPriorities,
     block_delimiters   |-> NoDelimiters,
     comment_delimiters |-> ("//" :> "\n") @@ ("/*" :> "*/"),
     text_delimiters    |-> ("<<" :> ">>"),
     default_priority   |-> dflt,
     statement_priority |-> 2,
     function_priority  |-> MaxPrio + 1]

NONE == [tok |-> "NONE", text |-> "", at |-> 0]

\* The newline NextToken keeps in pending.
PendingNewline == [tok |-> "NEWLINE", text |-> "", at |-> 0]

\* scanner.NextToken(): the token at the place n of a source, EOF after it.
Scan(source, n) ==
    IF n <= Len(source)
    THEN [tok |-> source[n].tok, text |-> source[n].text, at |-> n]
    ELSE [tok |-> "EOF", text |-> "", at |-> Len(source) + 1]

Returned_Token_NotKept(l, t, pend, line) ==
    [l EXCEPT !.stream = Append(@, t), !.pending = NONE,
              !.beginningLine = line]

\* return t, with what is left in pending and in beginningLine
Returned_Token(l, t, pend, line) ==
    [l EXCEPT !.stream = Append(@, t), !.pending = pend,
              !.beginningLine = line]

\* case tokNEWLINE: pending = tokNEWLINE; beginningLine = true; continue;
AtNewline(l) == [l EXCEPT !.pending = PendingNewline, !.beginningLine = TRUE]

\* One call of NextToken: the loop, from the token the scanner is at.
RECURSIVE Next_Token(_)
Next_Token(l) ==
    LET pend == l.pending IN
    IF pend.tok \notin {"NONE", "NEWLINE"}
    THEN Returned_Token(l, pend, NONE, FALSE)
    ELSE
    LET result == Scan(l.source, l.pos + 1)
        l1 == [l EXCEPT !.pos = @ + 1]
        syn == l.syntax
    IN
    CASE result.tok \in {"NAME", "SYMBOL"} ->
            IF result.text \in DOMAIN syn.comment_delimiters
            THEN IF syn.comment_delimiters[result.text] = "\n"
                    /\ pend.tok = "NONE"
                 THEN Next_Token(AtNewline(l1))
                 ELSE Next_Token(l1)
            ELSE IF result.text \in DOMAIN syn.text_delimiters
            THEN LET long == [result EXCEPT !.tok = "LONGSTRING"] IN
                 IF pend.tok = "NEWLINE"
                 THEN Returned_Token(l1, pend, long, l1.beginningLine)
                 ELSE IF syn.text_delimiters[result.text] = "\n"
                 THEN Returned_Token(l1, long, PendingNewline, TRUE)
                 ELSE Returned_Token(l1, long, pend, FALSE)
            ELSE IF /\ pend.tok = "NEWLINE"
                    /\ PrefixPriority(syn, result.text) = syn.default_priority
                    /\ InfixPriority(syn, result.text) < syn.statement_priority
                 THEN Returned_Token(l1, result, NONE, FALSE)
            ELSE IF pend.tok # "NONE"
                 THEN Returned_Token(l1, pend, result, TRUE)
                 ELSE Returned_Token(l1, result, pend, FALSE)
      [] result.tok = "NEWLINE" -> Next_Token(AtNewline(l1))
      [] result.tok = "UNINDENT" ->
            Returned_Token(l1, result, PendingNewline, TRUE)
      [] result.tok = "INDENT" -> Returned_Token(l1, result, NONE, TRUE)
      [] OTHER ->
            IF pend.tok # "NONE"
            THEN Returned_Token(l1, pend, result, TRUE)
            ELSE Returned_Token(l1, result, pend, FALSE)

LexerInit ==
    /\ ParserIdle /\ LookupIdle /\ DeclIdle /\ ClosureIdle /\ InterpIdle
    /\ invoked = NULL /\ reader = NULL
    /\ \E source \in Sources, pend \in {NONE, PendingNewline},
          dflt \in {0, 3} :
          lexer = [source |-> source, syntax |-> LineSyntax(dflt), pos |-> 0,
                   pending |-> pend, beginningLine |-> TRUE,
                   stream |-> << >>]

\* Parse calls NextToken until it gets tokEOF.
NextToken ==
    /\ \A i \in 1..Len(lexer.stream) : lexer.stream[i].tok # "EOF"
    /\ \E l \in { Next_Token(lexer) } : lexer' = l
    /\ UNCHANGED <<invoked, reader>>
    /\ UNCHANGED notRest

SpecLexer == LexerInit /\ [][NextToken]_vars

----------------------------------------------------------------------------
(* Parser: properties *)

\* The source text read so far, one word per token ("" for EOF).
Source(in) ==
    [i \in 1..Len(in) |->
        IF in[i].tok = "INTEGER" THEN ToString(in[i].ivalue) ELSE in[i].name]

\* The leaf the parser builds for an operand token.
Leaf(t) == IF t.tok = "INTEGER" THEN Integer(t.ivalue) ELSE Name(t.name)

Defined(p) == p # syntax.default_priority

\* C1: a + b + c with an infix priority p for +, p # default_priority, parses
\* to Infix(+, Infix(+, a, b), c) when p is even and to
\* Infix(+, a, Infix(+, b, c)) when p is odd.
C1_Associativity ==
    ( /\ ~Parsing
      /\ Source(input) = <<"a", "+", "b", "+", "c", "">>
      /\ Defined(InfixPriority(syntax, "+")) )
    => parsed = IF InfixPriority(syntax, "+") % 2 = 0
                THEN Infix("+", Infix("+", Name("a"), Name("b")), Name("c"))
                ELSE Infix("+", Name("a"), Infix("+", Name("b"), Name("c")))

C1_Witness ==
    /\ ~Parsing
    /\ Source(input) = <<"a", "+", "b", "+", "c", "">>
    /\ InfixPriority(syntax, "+") % 2 = 1
    /\ parsed = Infix("+", Name("a"), Infix("+", Name("b"), Name("c")))

\* The text is: operand, operator o1, operand, operator o2, operand, EOF.
TwoOperators(o1, o2) ==
    /\ ~Parsing
    /\ Len(input) = 6
    /\ input[1].operand /\ input[3].operand /\ input[5].operand
    /\ input[2].name = o1 /\ input[4].name = o2
    /\ input[6].tok = "EOF"

\* C2: of two infix operators with different priorities, neither the default
\* one, the one with the higher priority binds tighter on either side.
C2_HigherPriorityBindsTighter ==
    \A o1, o2 \in DOMAIN syntax.infix_priority :
        LET p1 == InfixPriority(syntax, o1)
            p2 == InfixPriority(syntax, o2)
            x  == Leaf(input[1])
            y  == Leaf(input[3])
            z  == Leaf(input[5])
        IN ( /\ TwoOperators(o1, o2)
             /\ Defined(p1) /\ Defined(p2) /\ p1 # p2 )
           => parsed = IF p1 < p2
                       THEN Infix(o1, x, Infix(o2, y, z))
                       ELSE Infix(o2, Infix(o1, x, y), z)

C2_Witness ==
    /\ ~Parsing
    /\ Source(input) = <<"2", "+", "3", "*", "4", "">>
    /\ InfixPriority(syntax, "+") < InfixPriority(syntax, "*")
    /\ Defined(InfixPriority(syntax, "+"))
    /\ parsed = Infix("+", Integer(2), Infix("*", Integer(3), Integer(4)))

\* A step of Parse that read a name after a result and stays in the loop.
NameAfterResult ==
    /\ Parsing /\ Parsing'
    /\ Len(input') = Len(input) + 1
    /\ input'[Len(input')].tok \in {"NAME", "SYMBOL"}
    /\ Top.result # NULL

\* Such a step took the name as an infix: the result is pending on the stack
\* and the parser waits for the right operand.
InfixPushed == NameAfterResult /\ Top'.result = NULL

RECURSIVE ClaimedKept(_, _)
\* How many entries stay when entries are popped while priority > (p & ~1).
ClaimedKept(stack, p) ==
    IF Len(stack) = 0 THEN 0
    ELSE IF stack[Len(stack)].priority > ClearLowBit(p)
    THEN ClaimedKept(SubSeq(stack, 1, Len(stack) - 1), p)
    ELSE Len(stack)

RECURSIVE AmendedKept(_, _, _)
\* How many entries stay when entries are popped while their priority is the
\* default one or p <= (priority & ~1).
AmendedKept(stack, p, dflt) ==
    IF Len(stack) = 0 THEN 0
    ELSE IF \/ stack[Len(stack)].priority = dflt
            \/ p <= ClearLowBit(stack[Len(stack)].priority)
    THEN AmendedKept(SubSeq(stack, 1, Len(stack) - 1), p, dflt)
    ELSE Len(stack)

\* The stack after the push is the k lowest entries of the stack before it,
\* and the new infix entry above them.
PushedAbove(k) ==
    /\ Len(Top'.stack) = k + 1
    /\ SubSeq(Top'.stack, 1, k) = SubSeq(Top.stack, 1, k)
    /\ Top'.stack[k + 1].opcode = input'[Len(input')].name
    /\ Top'.stack[k + 1].priority = Top'.infix_priority

\* C3 as stated: before a new infix of priority p is pushed, pending entries
\* are popped while the top entry has priority > (p & ~1).
C3_FlushAsStated ==
    [][InfixPushed =>
          PushedAbove(ClaimedKept(Top.stack, Top'.infix_priority))]_vars

\* C3 amended: before a new infix of priority p is pushed, pending entries are
\* popped while the top entry has the default priority or p <= (its priority
\* & ~1); the first entry with a non-default priority and
\* p > (its priority & ~1) stops the popping.
C3_Flush ==
    [][InfixPushed =>
          PushedAbove(AmendedKept(Top.stack, Top'.infix_priority,
                                  Top.default_priority))]_vars

\* A pending a + was reduced into the left operand of the * just pushed.
C3_Witness ==
    /\ Parsing
    /\ Top.result = NULL
    /\ Len(Top.stack) = 1
    /\ Top.stack[1].opcode = "+"
    /\ Top.stack[1].argument = Infix("*", Name("a"), Name("b"))

\* The spacing and priorities of the name a NameAfterResult step has read.
ReadInfixPriority == InfixPriority(syntax, input'[Len(input')].name)

ReadPrefixPriority == PrefixPriority(syntax, input'[Len(input')].name)

\* C4 as stated: the name is an infix exactly when it has an infix priority
\* and (it has no prefix priority, or no space before it and space after it).
C4_InfixAsStated ==
    [][NameAfterResult =>
          ( (Top'.result = NULL) <=>
            ( /\ Defined(ReadInfixPriority)
              /\ \/ ~Defined(ReadPrefixPriority)
                 \/ (~hadSpaceBefore' /\ hadSpaceAfter') ) )]_vars

\* C4 amended: the name is an infix exactly when it has an infix priority and
\* (it has no prefix priority, or no space before it, or space after it); a
\* name with both priorities is not an infix only when it has space before it
\* and none after it.
C4_Infix ==
    [][NameAfterResult =>
          ( (Top'.result = NULL) <=>
            ( /\ Defined(ReadInfixPriority)
              /\ \/ ~Defined(ReadPrefixPriority)
                 \/ ~hadSpaceBefore'
                 \/ hadSpaceAfter' ) )]_vars

\* "a - " with space on both sides of a - that is infix and prefix: an infix.
C4_Witness ==
    /\ Parsing
    /\ Source(input) = <<"a", "-">>
    /\ Defined(PrefixPriority(syntax, "-"))
    /\ hadSpaceBefore /\ hadSpaceAfter
    /\ Top.result = NULL
    /\ Top.stack = << Pending("-", Name("a"), InfixPriority(syntax, "-")) >>

----------------------------------------------------------------------------
(* Parser: properties of the blocks *)

\* The tokens of a text, without the ends of text.
Tokens(in) == SelectSeq(in, LAMBDA t : t.tok # "EOF")

\* Parse has returned after reaching the end of the text.
AtEnd ==
    /\ ~Parsing
    /\ Len(input) > 0
    /\ input[Len(input)].tok = "EOF"

RECURSIVE Expected(_, _)
\* The closing delimiters that are expected after the first n tokens of a
\* text, the innermost last: an opening adds its closing delimiter, and a
\* closing delimiter, whichever it is, ends the innermost block.
Expected(in, n) ==
    IF n = 0 THEN << >>
    ELSE Then(Expected(in, n - 1), LAMBDA open :
         IF in[n].tok \in {"PAROPEN", "INDENT"}
         THEN Append(open, syntax.block_delimiters[in[n].name])
         ELSE IF in[n].tok \in {"PARCLOSE", "UNINDENT"} /\ Len(open) > 0
         THEN SubSeq(open, 1, Len(open) - 1)
         ELSE open)

\* The delimiters expected where the text ended.
Open == Expected(Tokens(input), Len(Tokens(input)))

Reverse(seq) == [i \in 1..Len(seq) |-> seq[Len(seq) + 1 - i]]

\* The earlier text is this one with the expected delimiters added.
Completed ==
    /\ previous # NULL
    /\ Len(Open) > 0
    /\ Spelt(Tokens(previous.input)) \in
          { Spelt(Tokens(input)) \o Reverse(Open),
            Spelt(Tokens(input)) \o Reverse(Open) \o <<"\n">> }

Logged(message) == Len(SelectSeq(errors, LAMBDA e : e = message))

\* C17, as the specification states it: when the text ends where a closing
\* delimiter is expected, of a bracket block or of an indentation block,
\* each Parse that expects one logs Unexpected end of text, and Parse
\* returns the tree of the tokens read.
C17_EndOfTextAsStated ==
    AtEnd =>
        /\ Logged("Unexpected end of text") = Len(Open)
        /\ Completed => parsed = previous.parsed

\* C17: when the text ends where a closing delimiter is expected, each
\* Parse that expects the closing of a bracket block logs Unexpected end
\* of text, a Parse that expects the end of an indentation block logs
\* nothing, and Parse returns the tree it returns for the text with the
\* expected delimiters added.
C17_EndOfText ==
    AtEnd =>
        /\ Logged("Unexpected end of text")
              = Len(SelectSeq(Open, LAMBDA c : c # "UNINDENT"))
        /\ Completed => parsed = previous.parsed

\* A text has ended inside two bracket blocks, and the same text with its
\* closing delimiters was read before.
C17_Witness ==
    /\ AtEnd
    /\ Completed
    /\ Len(Open) > 1
    /\ Logged("Unexpected end of text") > 0
    /\ parsed = previous.parsed
    /\ parsed.kind = "Block"

\* Three statements in braces, and in an indentation block; two
\* statements given to a name in the two ways.
BracesAndIndent ==
    { << <<"{", "a", ";", "a", ";", "a", "}">>,
         <<"INDENT", "a", "\n", "a", "\n", "a", "UNINDENT", "\n">> >>,
      << <<"a", "{", "a", ";", "a", "}">>,
         <<"a", "INDENT", "a", "\n", "a", "UNINDENT", "\n">> >> }

\* The text in braces was read before, the indented one now.
BothRead ==
    /\ AtEnd
    /\ previous # NULL
    /\ <<Spelt(Tokens(previous.input)), Spelt(Tokens(input))>>
          \in BracesAndIndent

RECURSIVE Shape(_)
\* A tree without its infix names and block delimiters.
Shape(t) ==
    CASE t.kind = "Block" -> [kind |-> "Block", child |-> Shape(t.child)]
      [] t.kind = "Infix" ->
            [kind |-> "Infix", left |-> Shape(t.left), right |-> Shape(t.right)]
      [] t.kind \in {"Prefix", "Postfix"} ->
            [kind |-> t.kind, left |-> Shape(t.left), right |-> Shape(t.right)]
      [] OTHER -> t

RECURSIVE InfixNames(_)
InfixNames(t) ==
    CASE t.kind = "Block" -> InfixNames(t.child)
      [] t.kind = "Infix" ->
            {t.name} \cup InfixNames(t.left) \cup InfixNames(t.right)
      [] t.kind \in {"Prefix", "Postfix"} ->
            InfixNames(t.left) \cup InfixNames(t.right)
      [] OTHER -> {}

RECURSIVE Delimiters(_)
Delimiters(t) ==
    CASE t.kind = "Block" ->
            {<<t.opening, t.closing>>} \cup Delimiters(t.child)
      [] t.kind \in {"Infix", "Prefix", "Postfix"} ->
            Delimiters(t.left) \cup Delimiters(t.right)
      [] OTHER -> {}

RECURSIVE Leaves(_)
\* The names and constants of a tree, from left to right.
Leaves(t) ==
    CASE t.kind = "Block" -> Leaves(t.child)
      [] t.kind \in {"Infix", "Prefix", "Postfix"} ->
            Leaves(t.left) \o Leaves(t.right)
      [] OTHER -> <<t>>

SameAssociativity ==
    InfixPriority(syntax, ";") % 2 = InfixPriority(syntax, "\n") % 2

\* C18, as the specification states it: { A; B; C } and an indentation
\* block of A, B and C parse to equal trees, with the same node kinds,
\* infix names and block delimiters.
C18_BracesAndIndentAsStated == BothRead => parsed = previous.parsed

\* C18: { A; B; C } and an indentation block of A, B and C parse to trees
\* that hold the same statements in the same order, in a block; the infix
\* nodes are named ; in the first and newline in the second, the block
\* delimiters are the braces in the first and indent, unindent in the
\* second; the nodes have the same kinds and nesting when ; and newline
\* have priorities of the same parity, and not otherwise for three
\* statements.
C18_BracesAndIndent ==
    BothRead =>
        /\ Leaves(parsed) = Leaves(previous.parsed)
        /\ InfixNames(previous.parsed) = {";"}
        /\ InfixNames(parsed) = {"\n"}
        /\ Delimiters(previous.parsed) = {<<"{", "}">>}
        /\ Delimiters(parsed) = {<<"INDENT", "UNINDENT">>}
        /\ SameAssociativity => Shape(parsed) = Shape(previous.parsed)
        /\ ~SameAssociativity /\ parsed.kind = "Block" =>
              Shape(parsed) # Shape(previous.parsed)

\* The three statements have been read in braces and in an indentation
\* block, and the trees have the same kinds and nesting.
C18_Witness ==
    /\ BothRead
    /\ Len(Leaves(parsed)) = 3
    /\ parsed.kind = "Block"
    /\ parsed.child.kind = "Infix"
    /\ Shape(parsed) = Shape(previous.parsed)
    /\ parsed # previous.parsed

RECURSIVE EmptyPairs(_, _)
\* The delimiters of the blocks of a text that hold no token, in the order
\* of the text, among its first n tokens.
EmptyPairs(in, n) ==
    IF n < 2 THEN << >>
    ELSE EmptyPairs(in, n - 1)
         \o IF /\ in[n - 1].tok \in {"PAROPEN", "INDENT"}
               /\ in[n].tok \in {"PARCLOSE", "UNINDENT"}
               /\ in[n].name = syntax.block_delimiters[in[n - 1].name]
            THEN << <<in[n - 1].name, in[n].name>> >>
            ELSE << >>

RECURSIVE EmptyBlocks(_)
\* The delimiters of the blocks of a tree that hold the empty name, from
\* left to right.
EmptyBlocks(t) ==
    CASE t.kind = "Block" ->
            IF t.child = Name("") THEN << <<t.opening, t.closing>> >>
            ELSE EmptyBlocks(t.child)
      [] t.kind \in {"Infix", "Prefix", "Postfix"} ->
            EmptyBlocks(t.left) \o EmptyBlocks(t.right)
      [] OTHER -> << >>

RECURSIVE NoNullChild(_)
\* No block of the tree is without a child.
NoNullChild(t) ==
    CASE t.kind = "Block" -> t.child # NULL /\ NoNullChild(t.child)
      [] t.kind \in {"Infix", "Prefix", "Postfix"} ->
            NoNullChild(t.left) /\ NoNullChild(t.right)
      [] OTHER -> TRUE

\* C19: a pair of delimiters that encloses no token parses to a Block with
\* these delimiters whose child is the empty name; no block has a null
\* child, in the tree returned and in the trees under construction.
C19_EmptyBlock ==
    /\ NoNullChild(parsed)
    /\ \A i \in 1..Len(frames) :
          /\ NoNullChild(frames[i].result)
          /\ NoNullChild(frames[i].right)
    /\ AtEnd /\ Len(Open) = 0 =>
          EmptyBlocks(parsed)
              = EmptyPairs(Tokens(input), Len(Tokens(input)))

\* The text a () has been read.
C19_Witness ==
    /\ AtEnd
    /\ Spelt(Tokens(input)) = <<"a", "(", ")">>
    /\ parsed = Prefix(Name("a"), Block(Name(""), "(", ")"))

RECURSIVE Nodes(_)
\* The nodes of a tree.
Nodes(t) ==
    CASE t.kind = "Block" -> {t} \cup Nodes(t.child)
      [] t.kind \in {"Infix", "Prefix", "Postfix"} ->
            {t} \cup Nodes(t.left) \cup Nodes(t.right)
      [] t.kind = "Null" -> {}
      [] OTHER -> {t}

IsLiteral(t) == t.kind \in {"Integer", "Real"}

LiteralOf(t) == IF t.tok = "INTEGER" THEN Integer(t.ivalue) ELSE Real(t.ivalue)

IsNegative(t) ==
    \/ t.kind = "Integer" /\ t.ivalue < 0
    \/ t.kind = "Real" /\ t.rvalue < 0

Negated(t) ==
    IF t.kind = "Integer" THEN Integer(0 - t.ivalue) ELSE Real(0 - t.rvalue)

\* The trees the parser has built: the one returned, and the result of
\* each Parse at work.
Built == {parsed} \cup { frames[i].result : i \in 1..Len(frames) }

----------------------------------------------------------------------------
(* RewriteCalls: properties *)

Context == [env |-> scope.env, enclosing |-> scope.enclosing, what |-> what]

FactorialScope == scope.rules = << FactorialBase, FactorialStep >>

\* The body N * 2 of the second rule has a type.
BodyTyped == TypeIn(scope.env, FactorialStep.right) # NoType

\* C5, as the specification states it: with the rules 0 is 1 and N is N*2
\* in that order, the call site 0 binds the first rule PERFECT and the
\* second rule is never checked; the call site 3 is rejected by the first
\* rule and accepted by the second with the parameter N bound to 3.
C5_FactorialAsStated ==
    FactorialScope /\ BodyTyped =>
        /\ what = Integer(0) /\ Len(checks) >= 1 =>
              /\ checks[1].binding = "PERFECT"
              /\ found = what
              /\ Len(checks) = 1
        /\ what = Integer(3) /\ Len(checks) >= 1 =>
              checks[1].binding = "FAILED"
        /\ what = Integer(3) /\ Len(checks) = 2 =>
              /\ checks[2].binding # "FAILED"
              /\ checks[2].rc.bindings =
                     << RewriteBinding(Name("N"), Integer(3)) >>

\* C5: with the rules 0 is 1 and N is N*2 in that order, the call site 0
\* binds the first rule PERFECT and the second rule is never checked; the
\* call site 3 is rejected by the first rule and, when the body N*2 has a
\* type, accepted by the second rule with strength PERFECT and no binding
\* at all, because N is the name the rule defines; when the body has no
\* type the second rule is rejected as well.
C5_Factorial ==
    FactorialScope =>
        /\ what = Integer(0) /\ Len(checks) >= 1 =>
              /\ checks[1].binding = "PERFECT"
              /\ found = what
              /\ Len(checks) = 1
        /\ what = Integer(3) /\ Len(checks) >= 1 =>
              /\ checks[1].binding = "FAILED"
              /\ found = NULL \/ Len(checks) = 2
        /\ what = Integer(3) /\ Len(checks) = 2 /\ BodyTyped =>
              /\ checks[2].binding = "PERFECT"
              /\ checks[2].rc.bindings = << >>
              /\ Unconditional(checks[2].rc)
              /\ candidates = << checks[2].rc >>
              /\ found = what
        /\ what = Integer(3) /\ Len(checks) = 2 /\ ~BodyTyped =>
              /\ checks[2].binding = "FAILED"
              /\ candidates = << >>
              /\ found = NULL

\* The call site 3 went past 0 is 1 and was accepted by N is N*2.
C5_Witness ==
    /\ FactorialScope /\ BodyTyped
    /\ what = Integer(3)
    /\ Len(checks) = 2
    /\ checks[1].binding = "FAILED"
    /\ found = what

RECURSIVE Accepted(_)
\* The candidates of the checks that did not fail, in the order checked.
Accepted(cs) ==
    IF cs = << >> THEN << >>
    ELSE (IF Head(cs).binding # "FAILED" THEN << Head(cs).rc >> ELSE << >>)
         \o Accepted(Tail(cs))

\* C6: Check returns the expression exactly when the final strength of the
\* candidate is PERFECT and null otherwise; the candidates list holds the
\* candidates whose final strength is not FAILED, in the order they were
\* checked; no rule is checked after the first PERFECT one.
C6_Check ==
    /\ \A i \in DOMAIN checks :
          /\ checks[i].result = what <=> checks[i].binding = "PERFECT"
          /\ checks[i].result = NULL <=> checks[i].binding # "PERFECT"
          /\ checks[i].binding = "PERFECT" => i = Len(checks)
          /\ checks[i].rewrite = scope.rules[i]
    /\ candidates = Accepted(checks)
    /\ found # NULL <=>
          Len(checks) > 0 /\ checks[Len(checks)].binding = "PERFECT"

\* A POSSIBLE candidate, then a PERFECT one that ends the enumeration.
C6_Witness ==
    /\ Len(checks) = 2
    /\ checks[1].binding = "POSSIBLE"
    /\ checks[2].binding = "PERFECT"
    /\ Len(candidates) = 2
    /\ found = what

\* C7, as the specification states it: Bind returns PERFECT only when it
\* added no runtime condition, value equality or kind check, to the
\* candidate.
C7_PerfectIsUnconditional ==
    \A i \in DOMAIN checks :
        checks[i].bound.strength = "PERFECT" => Unconditional(checks[i].bound)

IsConstant(t) == t.kind \in {"Integer", "Real", "Text"}

\* C8: Bind of a literal form: a value of the same kind gives PERFECT when
\* equal and FAILED when different, without any condition; a value of
\* another kind gives POSSIBLE and exactly the equality condition
\* (value, form) when its type unifies with the type of the literal, and
\* FAILED without an equality condition otherwise.
C8_BindConstant ==
    \A i \in DOMAIN checks :
        LET form == checks[i].rewrite.left
            b    == checks[i].bound
        IN IsConstant(form) =>
              IF what.kind = form.kind
              THEN /\ b.strength = IF LiteralValue(what) = LiteralValue(form)
                                   THEN "PERFECT" ELSE "FAILED"
                   /\ Unconditional(b)
              ELSE IF UnifyTypes(TypeIn(scope.env, what), LiteralType(form))
              THEN /\ b.strength = "POSSIBLE"
                   /\ b.conditions = << [value |-> what, test |-> form] >>
              ELSE /\ b.strength = "FAILED"
                   /\ b.conditions = << >>

\* A literal form has met a value of another kind whose type is tree.
C8_Witness ==
    /\ Len(checks) = 1
    /\ IsConstant(checks[1].rewrite.left)
    /\ ~IsConstant(what)
    /\ checks[1].bound.strength = "POSSIBLE"
    /\ Len(checks[1].bound.kinds) = 1

RECURSIVE Matched(_, _, _, _)
\* The parameter names a matching form holds, each with the value it is
\* matched against, in the order Bind reaches them.
Matched(form, path, dpath, value) ==
    CASE form.kind = "Name" ->
            IF path = dpath THEN << >>
            ELSE << [name |-> form, value |-> value] >>
      [] form.kind = "Infix" ->
            IF form.name \in {":", "as", "when"}
            THEN Matched(form.left, Append(path, "left"), dpath, value)
            ELSE IF value.kind = "Infix" /\ value.name = form.name
            THEN Matched(form.left, Append(path, "left"), dpath, value.left)
                 \o Matched(form.right, Append(path, "right"), dpath,
                            value.right)
            ELSE Matched(form.left, Append(path, "left"), dpath,
                         Prefix(Name("left"), value))
                 \o Matched(form.right, Append(path, "right"), dpath,
                            Prefix(Name("right"), value))
      [] form.kind = "Prefix" ->
            Matched(form.right, Append(path, "right"), dpath,
                    IF value.kind = "Prefix" THEN value.right ELSE NULL)
      [] form.kind = "Postfix" ->
            Matched(form.left, Append(path, "left"), dpath,
                    IF value.kind = "Postfix" THEN value.left ELSE NULL)
      [] form.kind = "Block" ->
            Matched(form.child, Append(path, "child"), dpath, value)
      [] OTHER -> << >>

RECURSIVE FirstBound(_, _)
\* A binding for each name that is met while not yet in seen.
FirstBound(args, seen) ==
    IF args = << >> THEN << >>
    ELSE LET a == Head(args) IN
         IF a.name.value \in seen
         THEN FirstBound(Tail(args), seen)
         ELSE << RewriteBinding(a.name, a.value) >>
              \o FirstBound(Tail(args), seen \cup {a.name.value})

RECURSIVE BoundAgain(_, _)
\* An equality condition for each name that is met while in seen.
BoundAgain(args, seen) ==
    IF args = << >> THEN << >>
    ELSE LET a == Head(args) IN
         IF a.name.value \in seen
         THEN << [value |-> a.value, test |-> a.name] >>
              \o BoundAgain(Tail(args), seen)
         ELSE BoundAgain(Tail(args), seen \cup {a.name.value})

\* The parameters of the rule of a check, and the conditions on them.
Parameters(e) ==
    Matched(RewriteDefined(e.rewrite.left), DefinedPath(e.rewrite.left),
            DefinedPath(e.rewrite.left), what)

OnParameters(e) ==
    LET names == { Parameters(e)[j].name : j \in DOMAIN Parameters(e) }
        OnName(cond) == cond.test \in names
    IN SelectSeq(e.bound.conditions, OnName)

\* C9, as the specification states it: a parameter name already bound in
\* the candidate's own scope gets an equality condition and no binding; any
\* other parameter name, even one that a rule of an enclosing scope
\* defines, gets exactly one binding.
C9_BindNameAsStated ==
    \A i \in DOMAIN checks :
        checks[i].bound.strength # "FAILED" =>
            /\ checks[i].bound.bindings = FirstBound(Parameters(checks[i]), {})
            /\ OnParameters(checks[i]) = BoundAgain(Parameters(checks[i]), {})

IsGuard(form) == form.kind = "Infix" /\ form.name = "when"

\* C10: Bind of F when G fails when Bind of F fails, when G has no type or
\* when the type of G does not unify with boolean; otherwise it adds the
\* condition (G, true) to those of F and returns POSSIBLE, whatever the
\* strength of the binding of F.
C10_BindGuard ==
    \A i \in DOMAIN checks :
        LET pattern == checks[i].rewrite.left
            guard   == RewriteDefined(pattern)
            b       == checks[i].bound
            l       == Bind(Context, guard.left,
                            Append(DefinedPath(pattern), "left"), what,
                            NewCandidate(checks[i].rewrite))
            gt      == TypeOf(Context, l, guard.right)
        IN IsGuard(guard) =>
              IF \/ l.strength = "FAILED"
                 \/ gt = NoType
                 \/ ~UnifyTypes(gt, "boolean")
              THEN b.strength = "FAILED"
              ELSE /\ b.strength = "POSSIBLE"
                   /\ b.bindings = l.bindings
                   /\ b.conditions =
                          Append(l.conditions,
                                 [value |-> guard.right, test |-> Name("true")])

\* A guard has weakened a form that matched PERFECT without it.
C10_Witness ==
    /\ Len(checks) = 1
    /\ IsGuard(RewriteDefined(checks[1].rewrite.left))
    /\ checks[1].bound.strength = "POSSIBLE"
    /\ checks[1].bound.conditions =
           << [value |-> RewriteDefined(checks[1].rewrite.left).right,
               test |-> Name("true")] >>
    /\ checks[1].bound.bindings = << >>

\* The pattern a check has bound, and where it is in the rule.
Pattern(e) == RewriteDefined(e.rewrite.left)

PatternPath(e) == DefinedPath(e.rewrite.left)

\* A form of the rule of a check bound on its own, starting from candidate c.
BindAlone(e, form, side, value, c) ==
    Bind(Context, form, Append(PatternPath(e), side), value, c)

IsOperator(form) ==
    form.kind = "Infix" /\ form.name \notin {":", "as", "when"}

\* C11: Bind of an infix form L op R against an infix value lv op rv with
\* the same name returns the weaker of Bind(L, lv) and Bind(R, rv), with
\* FAILED < POSSIBLE < PERFECT; when Bind(L, lv) is FAILED the right side is
\* not attempted: the candidate holds what the left side left, nothing more.
C11_BindInfix ==
    \A i \in DOMAIN checks :
        LET e == checks[i]
            l == BindAlone(e, Pattern(e).left, "left", what.left,
                           NewCandidate(e.rewrite))
            r == BindAlone(e, Pattern(e).right, "right", what.right, l)
        IN IsOperator(Pattern(e)) /\ what.kind = "Infix"
              /\ what.name = Pattern(e).name =>
              IF l.strength = "FAILED"
              THEN e.bound = l
              ELSE /\ e.bound.strength \in {l.strength, r.strength}
                   /\ Rank(e.bound.strength) <= Rank(l.strength)
                   /\ Rank(e.bound.strength) <= Rank(r.strength)
                   /\ e.bound.bindings = r.bindings
                   /\ e.bound.conditions = r.conditions
                   /\ e.bound.kinds = r.kinds

\* A PERFECT left side and a POSSIBLE right side have given POSSIBLE.
C11_Witness ==
    /\ Len(checks) = 1
    /\ IsOperator(Pattern(checks[1]))
    /\ what.kind = "Infix" /\ what.name = Pattern(checks[1]).name
    /\ BindAlone(checks[1], Pattern(checks[1]).left, "left", what.left,
                 NewCandidate(checks[1].rewrite)).strength = "PERFECT"
    /\ checks[1].bound.strength = "POSSIBLE"
    /\ Len(checks[1].bound.conditions) = 1

\* The side of a prefix or postfix that names it, and the side it applies to.
HeadOf(t) == IF t.kind = "Prefix" THEN t.left ELSE t.right

OperandOf(t) == IF t.kind = "Prefix" THEN t.right ELSE t.left

OperandSide(t) == IF t.kind = "Prefix" THEN "right" ELSE "left"

\* C12: Bind of a prefix form h F returns Bind(F, value.right) when the
\* value is a prefix whose left is a name with the text of the name h, and
\* FAILED, touching nothing, in every other case; a postfix form is the
\* same with the name on the right and the operand on the left.
C12_BindPrefix ==
    \A i \in DOMAIN checks :
        LET e    == checks[i]
            form == Pattern(e)
        IN form.kind \in {"Prefix", "Postfix"} =>
              IF /\ what.kind = form.kind
                 /\ HeadOf(form).kind = "Name"
                 /\ HeadOf(what).kind = "Name"
                 /\ HeadOf(form).value = HeadOf(what).value
              THEN e.bound = BindAlone(e, OperandOf(form), OperandSide(form),
                                       OperandOf(what),
                                       NewCandidate(e.rewrite))
              ELSE e.bound = NewCandidate(e.rewrite)

\* f X has matched f 3 as X matches 3.
C12_Witness ==
    /\ Len(checks) = 1
    /\ Pattern(checks[1]).kind = "Prefix"
    /\ what.kind = "Prefix"
    /\ checks[1].bound.strength = "POSSIBLE"
    /\ checks[1].bound.bindings =
           << RewriteBinding(Pattern(checks[1]).right, what.right) >>

\* The bracket pairs a block may carry.
Brackets == { <<"(", ")">>, <<"[", "]">>, <<"{", "}">>, <<"INDENT", "UNINDENT">> }

\* What the claims compare of two bindings.
Outcome(c) ==
    [strength |-> c.strength, bindings |-> c.bindings,
     conditions |-> c.conditions, kinds |-> c.kinds]

\* C13: a block in a pattern is transparent: Bind(Block(F), value) has the
\* strength, bindings and conditions of Bind(F, value), whatever the
\* brackets of the block and whatever the value, a block with other
\* brackets included.
C13_BindBlock ==
    \A i \in DOMAIN checks :
        LET e     == checks[i]
            block == Pattern(e).right
            path  == Append(PatternPath(e), "right")
            inner == Bind(Context, block.child, Append(path, "child"),
                          what.right, NewCandidate(e.rewrite))
        IN /\ Pattern(e).kind = "Prefix"
           /\ block.kind = "Block"
           /\ what.kind = "Prefix"
           /\ HeadOf(what) = HeadOf(Pattern(e))
           =>
           /\ Outcome(e.bound) = Outcome(inner)
           /\ \A br \in Brackets :
                 Outcome(Bind(Context, Block(block.child, br[1], br[2]), path,
                              what.right, NewCandidate(e.rewrite)))
                     = Outcome(inner)

\* f (X) has matched f [3]: X is bound to the block [3].
C13_Witness ==
    /\ Len(checks) = 1
    /\ Pattern(checks[1]).kind = "Prefix"
    /\ Pattern(checks[1]).right.kind = "Block"
    /\ what.kind = "Prefix" /\ what.right.kind = "Block"
    /\ what.right.opening # Pattern(checks[1]).right.opening
    /\ checks[1].bound.bindings =
           << RewriteBinding(Pattern(checks[1]).right.child, what.right) >>

----------------------------------------------------------------------------
(* Declarations: properties *)

IsBare(t) == ~IsAnnotation(t) /\ ~IsGuarded(t) /\ t.kind # "Block"

RECURSIVE Innermost(_)
\* The form left when every wrapper is taken off.
Innermost(t) ==
    IF IsAnnotation(t) \/ IsGuarded(t) THEN Innermost(t.left)
    ELSE IF t.kind = "Block" THEN Innermost(t.child)
    ELSE t

\* At most one annotation, then at most one guard, then at most one block.
InOrder(ws) ==
    ws \in { << >>, << "annotation" >>, << "guard" >>, << "block" >>,
             << "annotation", "guard" >>, << "annotation", "block" >>,
             << "guard", "block" >>, << "annotation", "guard", "block" >> }

\* C14, as the specification states it: whatever guards, annotations and
\* blocks are wrapped around a form, in any combination and order,
\* RewriteDefined returns the bare form: never an infix when, as or :,
\* never a block.
C14_DefinedAsStated ==
    IsBare(definedForm) /\ definedForm = Innermost(declForm)

\* C14: RewriteDefined takes off at most one as or : annotation, then at
\* most one when guard, then at most one block, in that order: it returns
\* the bare form exactly for the patterns wrapped in that order, an
\* annotation outermost and a block innermost, and for every other
\* wrapping what it returns is still a guard, an annotation or a block.
C14_Defined ==
    IF InOrder(Wrappers(declForm))
    THEN IsBare(definedForm) /\ definedForm = Innermost(declForm)
    ELSE ~IsBare(definedForm)

\* (F) when G as T is entered, and F is what it defines.
C14_Witness ==
    /\ Wrappers(declForm) = << "annotation", "guard", "block" >>
    /\ definedForm = Innermost(declForm)

----------------------------------------------------------------------------
(* RewriteBinding: properties *)

IsSequenceOrFunction(t) == t.kind = "Infix" /\ t.name \in {";", "\n", "is"}

IsLazyBlock(t) ==
    /\ t.kind = "Block"
    /\ \/ t.opening = "INDENT" /\ t.closing = "UNINDENT"
       \/ t.opening = "{" /\ t.closing = "}"

\* C15, as the specification states it: a bound value gets a closure
\* exactly when it is an indentation block, a braces block, or an infix
\* named ;, newline or is; any other value, a parenthesized block
\* included, is passed as it is.
C15_DeferredAsStated ==
    argument.asked =>
        (argument.closure # NULL <=>
            IsLazyBlock(argument.value) \/ IsSequenceOrFunction(argument.value))

\* C15: a bound value gets a closure exactly when it is an indentation
\* block, a braces block, an infix named ;, newline or is, or a block with
\* any other brackets whose child is such an infix; any other value is
\* passed as it is, and the closure is that of the name and the value.
C15_Deferred ==
    argument.asked =>
        /\ argument.closure # NULL <=>
              \/ IsLazyBlock(argument.value)
              \/ IsSequenceOrFunction(argument.value)
              \/ /\ argument.value.kind = "Block"
                 /\ IsSequenceOrFunction(argument.value.child)
        /\ argument.closure \in
              { NULL, NamedClosure(argument.name, argument.value) }

\* The value (a; b) has been given a closure.
C15_Witness ==
    /\ argument.asked
    /\ argument.value.kind = "Block"
    /\ argument.value.opening = "("
    /\ IsSequenceOrFunction(argument.value.child)
    /\ argument.closure # NULL

----------------------------------------------------------------------------
(* Interpreter: properties *)

\* The first call of MakeClosure has returned.
Closed == interp.pc = "done" /\ interp.call = 1

\* C16, as the specification states it: for a value that is a closure
\* already, MakeClosure wraps the inner value in the current scope when
\* that scope is not the closure's, and returns the closure itself when it
\* is; and closing the result once more in the same context changes nothing.
C16_MakeClosureAsStated ==
    /\ Closed /\ interp.given \in Closures =>
          interp.value = IF interp.given.left # interp.ctx
                         THEN Marked(interp.ctx, interp.given.right)
                         ELSE interp.given
    /\ interp.pc = "done" /\ interp.call = 2 => interp.value = interp.first

\* C16: for a value that is a closure already, MakeClosure returns that
\* closure, with the scope it had, whatever the current scope is; and
\* closing the result of MakeClosure once more in the same context
\* returns that result.
C16_MakeClosure ==
    /\ Closed /\ interp.given \in Closures => interp.value = interp.given
    /\ interp.pc = "done" /\ interp.call = 2 => interp.value = interp.first

\* A closure made in another scope has been closed, twice.
C16_Witness ==
    /\ interp.pc = "done"
    /\ interp.call = 2
    /\ interp.given \in Closures
    /\ interp.given.left # interp.ctx
    /\ interp.value = interp.given

----------------------------------------------------------------------------
(* RewriteCandidate::Unify: properties *)

\* The kind each type of form stands for.
KindTested ==
    [t \in {"integer", "real", "text", "name", "boolean", "block", "infix",
            "prefix", "postfix"} |->
        CASE t = "integer" -> "INTEGER"
          [] t = "real"    -> "REAL"
          [] t = "text"    -> "TEXT"
          [] t = "name"    -> "NAME"
          [] t = "boolean" -> "NAME"
          [] t = "block"   -> "BLOCK"
          [] t = "infix"   -> "INFIX"
          [] t = "prefix"  -> "PREFIX"
          [] t = "postfix" -> "POSTFIX"]

----------------------------------------------------------------------------
(* Context::Rehash: properties *)

\* C22, as the specification states it: Rehash rotates the hash right by
\* one bit of the word, whatever the width of the word: every bit moves
\* one place down, bit 0 comes back as the top bit, and no two hashes are
\* rehashed to the same hash.
C22_RehashRotates ==
    invoked.rehashed =>
        /\ invoked.h = { (i + invoked.width - 1) % invoked.width :
                            i \in invoked.from }
        /\ \A g \in Hashes(invoked.width, 1) :
              Rehash(g, invoked.width) = invoked.h => g = invoked.from

\* The reading of the syntax description has ended.
ReadEnded == reader.tok = "EOF" \/ reader.done

\* C23: whenever ReadSyntaxFile has run, every token in known_tokens has all
\* its non-empty proper prefixes in known_prefixes, and every symbol the
\* description holds is a known token, so that the scanner can reach each
\* multi-character token one character at a time.
C23_KnownPrefixes ==
    /\ \A t \in reader.known_tokens :
          \A i \in 1..(Len(t) - 1) : SubSeq(t, 1, i) \in reader.known_prefixes
    /\ \A n \in 1..reader.pos :
          ScannerToken(reader.source, n).tok = "SYMBOL"
              => ScannerToken(reader.source, n).text \in reader.known_tokens

C23_Witness ==
    /\ ReadEnded
    /\ <<"<", "<", "=">> \in reader.known_tokens
    /\ <<"a", "b">> \in reader.known_tokens
    /\ {<<"<">>, <<"<", "<">>, <<"a">>} \subseteq reader.known_prefixes

Keywords == DOMAIN Sections

Globals == {STATEMENT, FUNCTION, DEFAULT}

\* The value of the last integer among the first n tokens of a source, 0
\* when there is none.
RECURSIVE LastInteger(_, _)
LastInteger(source, n) ==
    IF n = 0 THEN 0
    ELSE IF source[n].tok = "INTEGER" THEN source[n].ivalue
    ELSE LastInteger(source, n - 1)

\* The section the last keyword among the first n tokens of a source starts.
RECURSIVE LastSection(_, _)
LastSection(source, n) ==
    IF n = 0 THEN "inUnknown"
    ELSE IF source[n].tok = "NAME" /\ source[n].text \in Keywords
         THEN Sections[source[n].text]
    ELSE LastSection(source, n - 1)

\* The priority table a section fills.
TableOf(r, section) ==
    CASE section = "inPrefix" -> r.prefix_priority
      [] section = "inInfix" -> r.infix_priority
      [] section = "inPostfix" -> r.postfix_priority

Operators3 == {"inPrefix", "inInfix", "inPostfix"}

\* C24: a name or symbol read inside a PREFIX, INFIX or POSTFIX section is
\* entered in the table of that section with the last integer read; the
\* section keywords and the globals STATEMENT, FUNCTION, DEFAULT enter no
\* table, and a global sets its own priority to the last integer read and
\* leaves the section as it is.
C24_Sections ==
    [][ reader # NULL /\ reader' # NULL /\ reader'.pos = reader.pos + 1
        /\ reader'.pos <= Len(reader.source) =>
          LET source == reader.source
              t == source[reader'.pos]
              section == LastSection(source, reader.pos)
              last == LastInteger(source, reader.pos)
          IN /\ t.tok \in {"NAME", "SYMBOL"} /\ section \in Operators3
                /\ t.text \notin Keywords \cup Globals
                => /\ t.text \in DOMAIN TableOf(reader', section)
                   /\ TableOf(reader', section)[t.text] = last
                   /\ \A other \in Operators3 \ {section} :
                         TableOf(reader', other) = TableOf(reader, other)
             /\ t.tok = "NAME" /\ t.text \in Keywords \cup Globals
                => /\ \A any \in Operators3 :
                         /\ TableOf(reader', any) = TableOf(reader, any)
                         /\ t.text \notin DOMAIN TableOf(reader', any)
             /\ t.tok = "NAME" /\ t.text \in Globals
                => /\ reader'.state = reader.state
                   /\ LastSection(source, reader'.pos) = section
                   /\ t.text = STATEMENT => reader'.statement_priority = last
                   /\ t.text = FUNCTION => reader'.function_priority = last
                   /\ t.text = DEFAULT => reader'.default_priority = last
      ]_vars

C24_Witness ==
    /\ ReadEnded
    /\ Len(reader.source) = 3
    /\ reader.source[1].tok = "INTEGER"
    /\ reader.source[2].text = INFIX
    /\ reader.source[3].text = <<"a", "b">>
    /\ reader.state = "inInfix"
    /\ reader.infix_priority = Put(NoTable, <<"a", "b">>, 5)
    /\ reader.prefix_priority = NoTable

Opens == {"INDENT", "PAROPEN"}

Closes == {"UNINDENT", "PARCLOSE"}

\* How many of the first n tokens of a source have a kind among kinds.
Seen(source, n, kinds) ==
    Cardinality({ i \in 1..n : ScannerToken(source, i).tok \in kinds })

\* The first close token at which the closes seen reach the opens seen.
Balanced(source) ==
    { i \in 1..Len(source) :
        /\ source[i].tok \in Closes
        /\ Seen(source, i, Closes) >= Seen(source, i, Opens) }

\* The tokens a reader started at depth 0 is to consume: up to the first
\* balanced close, or up to the end of the source and its EOF.
Consumed(source) ==
    IF Balanced(source) = {} THEN Len(source) + 1
    ELSE CHOOSE i \in Balanced(source) : \A j \in Balanced(source) : i <= j

\* C28: a reader started at depth 0 by the syntax directive stops at the
\* first close token at which the closes seen reach the opens seen, or at
\* EOF, and its depth is never more than the number of blocks it has seen
\* opened: a close token that arrives with no block open ends the reading.
C28_ReaderStops ==
    reader.start = Uint(0, 0) =>
        /\ reader.pos <= Consumed(reader.source)
        /\ ReadEnded => reader.pos = Consumed(reader.source)
        /\ reader.indents.hi = 0
        /\ reader.indents.lo <= Seen(reader.source, reader.pos, Opens)

\* C25: ValidCName accepts no C name that begins with an underscore: it
\* reports an error and returns false, so that a rule declared as a C call
\* is never resolved to a function whose name begins with an underscore.
C25_NoUnderscore ==
    invoked.called /\ Len(LabelOf(invoked.tree)) > 0
        /\ LabelOf(invoked.tree)[1] = "_"
        => ~invoked.isC /\ invoked.error # ""

\* The last characters of a text are those of an ending.
EndsWith(t, ending) ==
    /\ Len(t) >= Len(ending)
    /\ SubSeq(t, Len(t) - Len(ending) + 1, Len(t)) = ending

\* C30: the path LibPath returns always ends with the extension, which is
\* appended exactly when the name does not already end with it, whatever the
\* length of the name, names shorter than the extension included.
C30_EndsWithExtension ==
    invoked.called =>
        /\ EndsWith(invoked.path, invoked.extension)
        /\ EndsWith(invoked.path,
                    IF EndsWith(invoked.name, invoked.extension)
                    THEN invoked.name
                    ELSE invoked.name \o invoked.extension)

\* C29: MakeClosure terminates for every context and value, names bound to
\* one another in a cycle included: every call comes to its return.
C29_Terminates == <>(interp.pc = "done")

\* The text A and not B has been read to its end.
AndNotRead == ~Parsing /\ Spelt(input) = <<"a", "and", "not", "a", "">>

\* C26: where and is infix and not is prefix with a higher priority, the
\* text A and not B is parsed as Infix(and, A, Prefix(not, B)): the name
\* after an infix operator starts the right operand.
C26_AndNot ==
    AndNotRead =>
        parsed = Infix("and", Name("a"), Prefix(Name("not"), Name("b")))

C26_Witness ==
    /\ AndNotRead
    /\ parsed.kind = "Infix"
    /\ parsed.right = Prefix(Name("not"), Name("b"))

NotNewline(t) == t.tok # "NEWLINE"

\* What Parse is to get of a token of the scanner: nothing of the start of
\* a comment, a long text for the start of a long text, else the token.
RECURSIVE Passed(_, _)
Passed(source, n) ==
    IF n > Len(source) + 1 THEN << >>
    ELSE LET t == Scan(source, n) IN
         (IF t.tok = "NEWLINE" \/ t.text \in {"//", "/*"} THEN << >>
          ELSE IF t.text = "<<" THEN << [t EXCEPT !.tok = "LONGSTRING"] >>
          ELSE << t >>)
         \o Passed(source, n + 1)

\* Parse has got tokEOF.
StreamEnded ==
    Len(lexer.stream) > 0 /\ lexer.stream[Len(lexer.stream)].tok = "EOF"

============================================================================
